---- MODULE Spec2Model ----
(***************************************************************************)
(* Operation Orchestration Engine of pos_admin_tool.                       *)
(*                                                                         *)
(*   SpecResult  the result model, app/models/operation.py                 *)
(*   Spec        the asynchronous execution host: MainController and       *)
(*               WorkerThread of app/ui.py (variant "ui") and WorkerThread *)
(*               of app/logic/worker_thread.py (variant "logic")           *)
(*   SpecCmd     BatchRunner.run_command of app/logic.py                   *)
(*   SpecBackup  BatchRunner.execute_backup of app/logic.py                *)
(***************************************************************************)
EXTENDS Integers, Sequences, FiniteSets, TLC

VARIABLES
    res,        \* SpecResult, SpecBackup: the OperationResult followed, or NoResult
    now,        \* the wall clock read by datetime.now(); assumed not to step back
    variant,    \* Spec: "ui" (app/ui.py) or "logic" (app/logic/worker_thread.py)
    worker,     \* MainController.worker: the id of the latest WorkerThread, 0 for None
    thr,        \* the WorkerThread objects, by id
    callback,   \* BatchRunner.output_callback: the id of the worker it is bound to, 0 for None
    queue,      \* signals emitted on a worker thread, posted to the receiver's thread
    delivered,  \* the notifications the subscriber has received, in order
    ncalls,     \* history: the number of execute_operation calls made
    nbusy,      \* history: the number of calls rejected as busy
    cmd,        \* SpecCmd: the run_command call in progress or last made
    bk,         \* SpecBackup: the locals and effects of the execute_backup call
    prs,        \* SpecParse: the text function last applied, its input and result
    rs,         \* SpecSql: the locals and effects of the execute_restore call
    cl,         \* SpecCleanup: the locals and effects of the execute_cleanup call
    mon         \* SpecMonitor: the ServiceMonitor of the controller and its threads

resultVars == <<res, now>>

hostVars == <<variant, worker, thr, callback, queue, delivered, ncalls, nbusy, mon>>

pipeVars == <<cmd, bk, prs, rs, cl>>

vars == <<res, now, variant, worker, thr, callback, queue, delivered, ncalls, nbusy,
          cmd, bk, prs, rs, cl, mon>>

----------------------------------------------------------------------------
(* Bounds *)

\* longest list of messages, errors, warnings or resources of one result
MaxItems == 1
\* last tick of the clock
MaxClock == 2
\* how many times finalize is called on one result in SpecResult
MaxFinalize == 2
\* WorkerThread objects constructed in one behaviour
MaxWorkers == 2
\* output lines the pipelines produce in one behaviour
MaxOutputs == 2
\* execute_operation calls rejected as busy in one behaviour
MaxBusy == 1
\* pieces (a flag, a blank, a letter, the secret) a process output is made of
MaxPieces == 2
\* databases configured for backup
MaxDbs == 2
\* appsettings files configured for backup
MaxApps == 1
\* rows of the output of a query
MaxRows == 2
\* services configured for cleanup
MaxServices == 2
\* folders configured for cleanup
MaxFolders == 1
\* monitor threads made by start_monitoring
MaxMonitors == 3
\* stop_monitoring calls made
MaxStops == 2

----------------------------------------------------------------------------
(* app/models/operation.py *)

OperationStatus ==
    {"PENDING", "RUNNING", "SUCCESS", "PARTIAL_SUCCESS", "FAILED", "CANCELLED"}

\* the statuses is_complete() accepts
TerminalStatus == {"SUCCESS", "PARTIAL_SUCCESS", "FAILED", "CANCELLED"}

ResourceType == {"SERVICE", "DATABASE", "FOLDER", "FILE", "REGISTRY_KEY", "PROCESS"}

\* Python's None for the Optional[datetime] and Optional[float] fields
None == -1

NoResult == [operation |-> "none"]

\* OperationResult.__post_init__: the duration is derived when end_time is set
post_init(r) ==
    IF r.end_time # None
    THEN [r EXCEPT !.duration_seconds = r.end_time - r.start_time]
    ELSE r

\* OperationResult.create(operation).  hist, nfinal and farg are history
\* fields of the model: every value status took, the number of finalize
\* calls, and the argument of the last finalize call.
create(operation, t) ==
    post_init([operation          |-> operation,
               status             |-> "PENDING",
               start_time         |-> t,
               end_time           |-> None,
               success            |-> FALSE,
               partial_success    |-> FALSE,
               messages           |-> <<>>,
               errors             |-> <<>>,
               warnings           |-> <<>>,
               affected_resources |-> <<>>,
               duration_seconds   |-> None,
               context            |-> {},
               hist               |-> <<"PENDING">>,
               nfinal             |-> 0,
               farg               |-> "PENDING"])

add_message(r, message) == [r EXCEPT !.messages = Append(@, message)]

add_error(r, error) == [r EXCEPT !.errors = Append(@, error), !.success = FALSE]

add_warning(r, warning) == [r EXCEPT !.warnings = Append(@, warning)]

\* a list that takes the new resource at its front
add_resource_front(r, resource) == [r EXCEPT !.affected_resources = <<resource>> \o @]

add_resource(r, resource) == [r EXCEPT !.affected_resources = Append(@, resource)]

\* the assignment  result.status = OperationStatus.X  made outside finalize
set_status(r, status) == [r EXCEPT !.status = status, !.hist = Append(@, status)]

\* the assignment  result.context[key] = value
set_context(r, key) == [r EXCEPT !.context = @ \cup {key}]

\* OperationResult.finalize(status)
finalize(r, status, t) ==
    post_init([r EXCEPT !.end_time = t,
                        !.status = status,
                        !.hist = Append(@, status),
                        !.nfinal = @ + 1,
                        !.farg = status,
                        !.success = (status = "SUCCESS"),
                        !.partial_success = (status = "PARTIAL_SUCCESS")])

is_complete(r) == r.status \in TerminalStatus

ParkedResult ==
    /\ res = NoResult
    /\ now = 0

\* no run_command call and no execute_backup call made
NoCall == [pc |-> "none"]

ParkedPipes ==
    /\ cmd = NoCall
    /\ bk = NoCall
    /\ prs = NoCall
    /\ rs = NoCall
    /\ cl = NoCall

----------------------------------------------------------------------------
(* The asynchronous execution host.                                        *)
(*   variant "ui":    MainController and WorkerThread of app/ui.py, with   *)
(*                    the BatchRunner of app/logic.py                      *)
(*   variant "logic": WorkerThread of app/logic/worker_thread.py, with the *)
(*                    BatchRunner of app/logic/batch_runner.py; its caller *)
(*                    is not part of the repository, and one worker is     *)
(*                    followed from its construction to its end            *)
(* A pipeline of the BatchRunner is seen here by what the host sees of    *)
(* it: it creates its result and marks it RUNNING, produces output lines,  *)
(* finalizes the result, and returns it or raises.                         *)

WorkerIds == 1 .. MaxWorkers

UiOperations == {"cleanup", "restore", "backup", "uninstall_branch", "uninstall_pos"}

LogicOperations == {"cleanup", "restore", "backup"}

\* the operation types WorkerThread.run dispatches to a pipeline
KnownOperations == IF variant = "ui" THEN UiOperations ELSE LogicOperations

\* the operation types a caller asks for here: a known one and an unknown one
RequestTypes == {"backup", "bogus"}

\* the statuses a pipeline is followed to: SUCCESS, and FAILED for the others,
\* which the host handles as it handles FAILED (ui.py on_op_complete)
PipelineStatus == {"SUCCESS", "FAILED"}

\* a WorkerThread that does not exist yet.  entry, cancelAt, raised and
\* origin are history fields: the outcome of run's entry check, when cancel()
\* was called relative to it, whether the pipeline raised, and who created
\* the result run emitted.
NoThread ==
    [st |-> "none", op |-> "none", pc |-> "init", cancelled |-> FALSE,
     pres |-> NoResult, result |-> NoResult, outs |-> 0,
     entry |-> "none", cancelAt |-> "never", raised |-> FALSE, origin |-> "none"]

\* WorkerThread.__init__: the fields of a fresh worker
NewThread(op_type) == [NoThread EXCEPT !.st = "created", !.op = op_type]

Event(sig, w, txt, n, r) == [sig |-> sig, w |-> w, txt |-> txt, n |-> n, result |-> r]

ParkedHost ==
    /\ variant = "none"
    /\ worker = 0
    /\ thr = [w \in WorkerIds |-> NoThread]
    /\ callback = 0
    /\ queue = <<>>
    /\ delivered = <<>>
    /\ ncalls = 0
    /\ nbusy = 0
    /\ mon = NoCall

PostLifo(q, e) == <<e>> \o q

\* a signal emitted on the worker thread: Qt posts it to the receiver's thread,
\* which handles the posted events in the order they were posted
Post(q, e) == Append(q, e)

EmitCompleteTwice(q, w, r) ==
    Post(Post(q, Event("operation_complete", w, "result", 0, r)),
         Event("operation_complete", w, "result", 0, r))

\* self.operation_complete.emit(result)
EmitComplete(q, w, r) == Post(q, Event("operation_complete", w, "result", 0, r))

emit_output_checks_flag(q, e) ==
    IF ~thr[callback].cancelled THEN Post(q, e) ELSE q

\* ui.py WorkerThread.emit_output / worker_thread.py WorkerThread._handle_output,
\* whichever the runner's callback is bound to
emit_output(q, e) ==
    IF variant = "ui"
    THEN IF ~thr[callback].cancelled THEN Post(q, e) ELSE q
    ELSE Post(q, e)

\* BatchRunner._log_output, the part the subscriber sees
log_output(q, e) == IF callback # 0 THEN emit_output(q, e) ELSE q

BeginPipelineNoRunning(op, t) == create(op, t)

\* the first two statements of every pipeline method of the BatchRunner
BeginPipeline(op, t) == set_status(create(op, t), "RUNNING")

\* run: the result for a cancel seen by the entry check
CancelledResult(op, t) ==
    finalize(add_message(create(op, t), "cancelled_before_start"), "CANCELLED", t)

\* run: the result for an operation type it does not know
UnknownResult(op, t) ==
    finalize(add_error(create(op, t), "unknown_operation"), "FAILED", t)

ErrorResultNoError(op, t) == finalize(create(op, t), "FAILED", t)

\* run: the result for an exception that escaped the pipeline
ErrorResult(op, t) ==
    finalize(add_error(create(op, t), "exception"), "FAILED", t)

IsBusyNever == FALSE

\* execute_operation: self.worker and self.worker.isRunning()
IsBusy == worker # 0 /\ thr[worker].st = "running"

\* the id the next WorkerThread object gets
RECURSIVE SumOuts(_)
\* history: the output lines produced so far by the workers 1 .. n
SumOuts(n) == IF n = 0 THEN 0 ELSE thr[n].outs + SumOuts(n - 1)

FreshWorker == CHOOSE w \in WorkerIds : thr[w].st = "none" /\ \A v \in 1 .. w - 1 : thr[v].st # "none"

InitHost ==
    /\ variant \in {"ui", "logic"}
    /\ worker = 0
    /\ thr = [w \in WorkerIds |-> NoThread]
    /\ callback = 0
    /\ queue = <<>>
    /\ delivered = <<>>
    /\ ncalls = 0
    /\ nbusy = 0
    /\ mon = NoCall

\* MainController.execute_operation(op_type)
ExecuteOperation ==
    /\ variant = "ui"
    /\ \E op_type \in RequestTypes :
         IF IsBusy
         THEN /\ nbusy < MaxBusy
              /\ delivered' = Append(delivered, Event("log_msg", 0, "busy", 0, NoResult))
              /\ nbusy' = nbusy + 1
              /\ ncalls' = ncalls + 1
              /\ UNCHANGED <<variant, worker, thr, callback, queue>>
         ELSE /\ \E w \in WorkerIds : thr[w].st = "none"
              /\ delivered' = Append(delivered, Event("op_started", 0, "started", 0, NoResult))
              /\ worker' = FreshWorker
              /\ thr' = [thr EXCEPT ![FreshWorker] = [NewThread(op_type) EXCEPT !.st = "running"]]
              /\ callback' = FreshWorker
              /\ ncalls' = ncalls + 1
              /\ UNCHANGED <<variant, queue, nbusy>>
    /\ UNCHANGED <<resultVars, pipeVars, mon>>

\* worker_thread.py: WorkerThread(operation_type, runner) constructed by its caller
Construct ==
    /\ variant = "logic"
    /\ worker = 0
    /\ \E op_type \in RequestTypes :
         thr' = [thr EXCEPT ![FreshWorker] = NewThread(op_type)]
    /\ worker' = FreshWorker
    /\ callback' = FreshWorker
    /\ UNCHANGED <<variant, queue, delivered, ncalls, nbusy, resultVars, pipeVars, mon>>

\* worker_thread.py: QThread.start() called on the constructed worker
Start ==
    /\ variant = "logic"
    /\ worker # 0
    /\ thr[worker].st = "created"
    /\ thr' = [thr EXCEPT ![worker].st = "running"]
    /\ UNCHANGED <<variant, worker, callback, queue, delivered, ncalls, nbusy, resultVars, pipeVars, mon>>

\* worker_thread.py: WorkerThread.cancel()
Cancel ==
    /\ variant = "logic"
    /\ worker # 0
    /\ thr[worker].st \in {"created", "running"}
    /\ ~thr[worker].cancelled
    /\ thr' = [thr EXCEPT ![worker].cancelled = TRUE,
                          ![worker].cancelAt =
                              IF thr[worker].entry = "none" THEN "before" ELSE "after"]
    /\ UNCHANGED <<variant, worker, callback, queue, delivered, ncalls, nbusy, resultVars, pipeVars, mon>>

\* WorkerThread.run up to the call of the pipeline, in ui.py
RunEntryUi(w) ==
    IF thr[w].op \in KnownOperations
    THEN /\ thr' = [thr EXCEPT ![w].pc = "pipeline",
                               ![w].entry = "clear",
                               ![w].pres = BeginPipeline(thr[w].op, now)]
         /\ UNCHANGED queue
    ELSE /\ thr' = [thr EXCEPT ![w].pc = "emitted",
                               ![w].entry = "clear",
                               ![w].origin = "host",
                               ![w].result = UnknownResult(thr[w].op, now)]
         /\ queue' = IF ~thr[w].cancelled
                     THEN EmitComplete(queue, w, UnknownResult(thr[w].op, now))
                     ELSE queue

\* WorkerThread.run up to the call of the pipeline, in worker_thread.py
RunEntryLogic(w) ==
    IF thr[w].cancelled
    THEN /\ thr' = [thr EXCEPT ![w].pc = "emitted",
                               ![w].entry = "cancelled",
                               ![w].origin = "host",
                               ![w].result = CancelledResult(thr[w].op, now)]
         /\ queue' = EmitComplete(Post(queue, Event("operation_started", w, "started", 0, NoResult)),
                                  w, CancelledResult(thr[w].op, now))
    ELSE IF thr[w].op \in KnownOperations
    THEN /\ thr' = [thr EXCEPT ![w].pc = "pipeline",
                               ![w].entry = "clear",
                               ![w].pres = BeginPipeline(thr[w].op, now)]
         /\ queue' = Post(queue, Event("operation_started", w, "started", 0, NoResult))
    ELSE /\ thr' = [thr EXCEPT ![w].pc = "emitted",
                               ![w].entry = "clear",
                               ![w].origin = "host",
                               ![w].result = UnknownResult(thr[w].op, now)]
         /\ queue' = EmitComplete(Post(queue, Event("operation_started", w, "started", 0, NoResult)),
                                  w, UnknownResult(thr[w].op, now))

RunEntry ==
    /\ \E w \in WorkerIds :
         /\ thr[w].st = "running"
         /\ thr[w].pc = "init"
         /\ IF variant = "ui" THEN RunEntryUi(w) ELSE RunEntryLogic(w)
    /\ UNCHANGED <<variant, worker, callback, delivered, ncalls, nbusy, resultVars, pipeVars, mon>>

\* the pipeline logs one output line through BatchRunner._log_output
PipelineOutput ==
    /\ \E w \in WorkerIds :
         /\ thr[w].st = "running"
         /\ thr[w].pc = "pipeline"
         /\ SumOuts(MaxWorkers) < MaxOutputs
         /\ thr' = [thr EXCEPT ![w].outs = @ + 1]
         /\ queue' = log_output(queue, Event("output_received", w, "output", thr[w].outs + 1, NoResult))
    /\ UNCHANGED <<variant, worker, callback, delivered, ncalls, nbusy, resultVars, pipeVars, mon>>

\* the pipeline finalizes its result and returns it, and run emits it
PipelineReturn ==
    /\ \E w \in WorkerIds :
         /\ thr[w].st = "running"
         /\ thr[w].pc = "pipeline"
         /\ \E status \in PipelineStatus :
              /\ thr' = [thr EXCEPT ![w].pc = "emitted",
                                    ![w].origin = "pipeline",
                                    ![w].pres = finalize(thr[w].pres, status, now),
                                    ![w].result = finalize(thr[w].pres, status, now)]
              /\ queue' = IF variant = "ui" /\ thr[w].cancelled
                          THEN queue
                          ELSE EmitComplete(queue, w, finalize(thr[w].pres, status, now))
    /\ UNCHANGED <<variant, worker, callback, delivered, ncalls, nbusy, resultVars, pipeVars, mon>>

\* an exception escapes the pipeline: the except branch of run
PipelineRaise ==
    /\ \E w \in WorkerIds :
         /\ thr[w].st = "running"
         /\ thr[w].pc = "pipeline"
         /\ IF variant = "ui" /\ thr[w].cancelled
            THEN /\ thr' = [thr EXCEPT ![w].pc = "emitted", ![w].raised = TRUE]
                 /\ UNCHANGED queue
            ELSE /\ thr' = [thr EXCEPT ![w].pc = "emitted",
                                       ![w].raised = TRUE,
                                       ![w].origin = "host",
                                       ![w].result = ErrorResult(thr[w].op, now)]
                 /\ queue' = EmitComplete(
                                IF variant = "ui"
                                THEN Post(queue, Event("output_received", w, "thread_error", 0, NoResult))
                                ELSE queue,
                                w, ErrorResult(thr[w].op, now))
    /\ UNCHANGED <<variant, worker, callback, delivered, ncalls, nbusy, resultVars, pipeVars, mon>>

\* run returns and the thread finishes: isRunning() becomes false
RunFinish ==
    /\ \E w \in WorkerIds :
         /\ thr[w].st = "running"
         /\ thr[w].pc = "emitted"
         /\ thr' = [thr EXCEPT ![w].st = "finished", ![w].pc = "done"]
    /\ UNCHANGED <<variant, worker, callback, queue, delivered, ncalls, nbusy, resultVars, pipeVars, mon>>

\* MainController.on_op_complete(result)
on_op_complete(d, e) ==
    d \o << [e EXCEPT !.sig = "op_finished"],
            Event("log_msg", e.w,
                  IF e.result.status = "SUCCESS" THEN "summary_ok" ELSE "summary_failed",
                  0, NoResult) >>

\* the receiver's thread handles the oldest posted signal
Deliver ==
    /\ queue # <<>>
    /\ queue' = Tail(queue)
    /\ delivered' =
         IF variant = "ui"
         THEN IF Head(queue).sig = "operation_complete"
              THEN on_op_complete(delivered, Head(queue))
              ELSE Append(delivered, [Head(queue) EXCEPT !.sig = "log_msg"])
         ELSE Append(delivered, Head(queue))
    /\ UNCHANGED <<variant, worker, thr, callback, ncalls, nbusy, resultVars, pipeVars, mon>>

Next ==
    \/ ExecuteOperation
    \/ Construct
    \/ Start
    \/ Cancel
    \/ RunEntry
    \/ PipelineOutput
    \/ PipelineReturn
    \/ PipelineRaise
    \/ RunFinish
    \/ Deliver

Init == InitHost /\ ParkedResult /\ ParkedPipes

Spec == Init /\ [][Next]_vars

----------------------------------------------------------------------------
(* Claims about the execution host, checked under Spec *)

IsTerminalEvent(e) == e.sig \in {"operation_complete", "op_finished"}

\* the terminal-result notifications of worker w, emitted or delivered
TerminalCount(w) ==
    Cardinality({i \in DOMAIN queue : IsTerminalEvent(queue[i]) /\ queue[i].w = w})
    + Cardinality({i \in DOMAIN delivered : IsTerminalEvent(delivered[i]) /\ delivered[i].w = w})

\* the pipeline output lines of worker w, emitted or delivered
OutputCount(w) ==
    Cardinality({i \in DOMAIN queue : queue[i].txt = "output" /\ queue[i].w = w})
    + Cardinality({i \in DOMAIN delivered : delivered[i].txt = "output" /\ delivered[i].w = w})

AtMostOneRunning == Cardinality({w \in WorkerIds : thr[w].st = "running"}) <= 1

\* C1: at most one worker runs at a time, and a call of execute_operation made
\* while the current worker is running only emits the busy notification: no
\* op_started, no worker created, replaced or started, no callback rebound.
C1_SingleFlight ==
    [][ /\ AtMostOneRunning'
        /\ (ncalls' # ncalls /\ worker # 0 /\ thr[worker].st = "running")
             => /\ delivered' = Append(delivered, Event("log_msg", 0, "busy", 0, NoResult))
                /\ UNCHANGED <<worker, thr, callback, queue>> ]_vars

C1_Witness ==
    /\ variant = "ui"
    /\ nbusy >= 1
    /\ worker # 0
    /\ thr[worker].st = "running"

C3_ExceptionBecomesFailed ==
    \A w \in WorkerIds :
        thr[w].raised =>
            /\ thr[w].pc \in {"emitted", "done"}
            /\ thr[w].result # NoResult
            /\ thr[w].result.status = "FAILED"
            /\ \E i \in DOMAIN thr[w].result.errors : thr[w].result.errors[i] = "exception"
            /\ \/ \E i \in DOMAIN queue :
                    IsTerminalEvent(queue[i]) /\ queue[i].w = w /\ queue[i].result = thr[w].result
               \/ \E i \in DOMAIN delivered :
                    IsTerminalEvent(delivered[i]) /\ delivered[i].w = w
                    /\ delivered[i].result = thr[w].result

C3_Witness ==
    \E w \in WorkerIds :
        /\ thr[w].raised
        /\ thr[w].st = "finished"
        /\ \E i \in DOMAIN delivered : IsTerminalEvent(delivered[i]) /\ delivered[i].w = w

\* the output lines of one worker arrive in the order the pipeline produced them
OutputsInOrder ==
    \A i \in DOMAIN delivered :
        delivered[i].txt = "output" =>
            \A j \in i + 1 .. Len(delivered) :
                (delivered[j].txt = "output" /\ delivered[j].w = delivered[i].w)
                => delivered[i].n < delivered[j].n

\* once everything is delivered, every output line produced has arrived
OutputsAllArrive ==
    \A w \in WorkerIds :
        (thr[w].st = "finished" /\ queue = <<>>) =>
            {delivered[i].n : i \in {k \in DOMAIN delivered :
                                        delivered[k].txt = "output" /\ delivered[k].w = w}}
            = 1 .. thr[w].outs

\* C4 as claimed: the output lines of an invocation arrive in emission order and
\* its terminal result is its last notification: nothing attributable to the
\* invocation is delivered after it.
C4_TerminalIsLast ==
    /\ OutputsInOrder
    /\ OutputsAllArrive
    /\ \A i \in DOMAIN delivered :
           IsTerminalEvent(delivered[i]) =>
               \A j \in i + 1 .. Len(delivered) : delivered[j].w # delivered[i].w

IsSummary(e) == e.sig = "log_msg" /\ e.txt \in {"summary_ok", "summary_failed"}

\* C4 as amended: the output lines of an invocation arrive in emission order,
\* all of them before its terminal result; after the terminal result the
\* subscriber of MainController receives one more notification of that
\* invocation, the summary log line on_op_complete emits right after
\* op_finished, and nothing else.
C4_TerminalThenSummary ==
    /\ OutputsInOrder
    /\ OutputsAllArrive
    /\ \A i \in DOMAIN delivered :
           IsTerminalEvent(delivered[i]) =>
               /\ variant = "ui" =>
                    /\ i + 1 \in DOMAIN delivered
                    /\ IsSummary(delivered[i + 1])
                    /\ delivered[i + 1].w = delivered[i].w
                    /\ delivered[i + 1].txt = "summary_ok" <=> delivered[i].result.status = "SUCCESS"
               /\ \A j \in i + 1 .. Len(delivered) :
                      delivered[j].w = delivered[i].w => (variant = "ui" /\ j = i + 1)

C4_Witness ==
    \E w \in WorkerIds :
        /\ variant = "ui"
        /\ thr[w].st = "finished"
        /\ thr[w].outs = 2
        /\ queue = <<>>
        /\ \E i \in DOMAIN delivered : delivered[i].sig = "op_finished" /\ delivered[i].w = w

\* C5: cancel() takes effect exactly when it is made before the entry check of
\* run: then no pipeline is invoked and the one terminal result is CANCELLED;
\* made later it changes nothing: the pipeline runs, every output line it
\* produces is forwarded, and the result it returns is the one delivered.
C5_CancelOnlyBeforeEntry ==
    \A w \in WorkerIds :
        thr[w].pc \in {"emitted", "done"} =>
            /\ thr[w].cancelAt = "before" <=> thr[w].entry = "cancelled"
            /\ thr[w].entry = "cancelled" =>
                 /\ thr[w].pres = NoResult
                 /\ thr[w].outs = 0
                 /\ thr[w].result.status = "CANCELLED"
                 /\ TerminalCount(w) = 1
            /\ thr[w].entry = "clear" =>
                 /\ thr[w].op \in KnownOperations => thr[w].pres # NoResult
                 /\ OutputCount(w) = thr[w].outs
                 /\ thr[w].result.status # "CANCELLED"
                 /\ (thr[w].op \in KnownOperations /\ ~thr[w].raised) =>
                        /\ thr[w].result = thr[w].pres
                        /\ thr[w].result.status \in PipelineStatus

C5_Witness ==
    \E w \in WorkerIds :
        /\ variant = "logic"
        /\ thr[w].cancelAt = "after"
        /\ thr[w].st = "finished"
        /\ thr[w].origin = "pipeline"
        /\ thr[w].outs >= 1
        /\ OutputCount(w) = thr[w].outs

\* the results the host holds: each worker's pipeline result and emitted result
HostResults ==
    {thr[w].pres : w \in {v \in WorkerIds : thr[v].pres # NoResult}}
    \cup {thr[w].result : w \in {v \in WorkerIds : thr[v].result # NoResult}}

\* C6 as claimed: the status history of every result is PENDING, then RUNNING,
\* then one terminal status, never PENDING straight to terminal, and nothing
\* after the terminal status.
C6_PendingRunningTerminal ==
    \A r \in HostResults :
        \/ r.hist = <<"PENDING">>
        \/ r.hist = <<"PENDING", "RUNNING">>
        \/ \E st \in TerminalStatus : r.hist = <<"PENDING", "RUNNING", st>>

\* C6 as amended: a result created by a pipeline goes PENDING, RUNNING, then one
\* terminal status; a result created by the host itself (unknown operation,
\* cancel seen at entry, exception captured) goes from PENDING straight to its
\* terminal status FAILED or CANCELLED; no result changes status after its
\* terminal status.
C6_StatusHistory ==
    \A w \in WorkerIds :
        /\ thr[w].pres # NoResult =>
             \/ thr[w].pres.hist = <<"PENDING", "RUNNING">>
             \/ \E st \in TerminalStatus : thr[w].pres.hist = <<"PENDING", "RUNNING", st>>
        /\ (thr[w].result # NoResult /\ thr[w].origin = "pipeline") =>
             \E st \in TerminalStatus : thr[w].result.hist = <<"PENDING", "RUNNING", st>>
        /\ (thr[w].result # NoResult /\ thr[w].origin = "host") =>
             \E st \in {"FAILED", "CANCELLED"} : thr[w].result.hist = <<"PENDING", st>>
        /\ thr[w].result # NoResult => thr[w].origin \in {"pipeline", "host"}

C6_Witness ==
    \E w, v \in WorkerIds :
        /\ thr[w].origin = "host" /\ thr[w].result.hist = <<"PENDING", "FAILED">>
        /\ thr[v].origin = "pipeline" /\ thr[v].result.hist = <<"PENDING", "RUNNING", "SUCCESS">>

----------------------------------------------------------------------------
(* SpecResult: one OperationResult driven through its public methods in    *)
(* any order, with the clock advancing between the calls.                  *)

InitResult ==
    /\ res = NoResult
    /\ now = 0
    /\ ParkedHost
    /\ ParkedPipes

RCreate ==
    /\ res = NoResult
    /\ \E op \in {"backup", "restore", "cleanup"} : res' = create(op, now)
    /\ UNCHANGED <<now, hostVars, pipeVars>>

RAddMessage ==
    /\ res # NoResult
    /\ Len(res.messages) < MaxItems
    /\ res' = add_message(res, "m")
    /\ UNCHANGED <<now, hostVars, pipeVars>>

RAddError ==
    /\ res # NoResult
    /\ Len(res.errors) < MaxItems
    /\ res' = add_error(res, "e")
    /\ UNCHANGED <<now, hostVars, pipeVars>>

RAddWarning ==
    /\ res # NoResult
    /\ Len(res.warnings) < MaxItems
    /\ res' = add_warning(res, "w")
    /\ UNCHANGED <<now, hostVars, pipeVars>>

RAddResource ==
    /\ res # NoResult
    /\ Len(res.affected_resources) < MaxItems
    /\ res' = add_resource(res, "DATABASE")
    /\ UNCHANGED <<now, hostVars, pipeVars>>

RFinalize ==
    /\ res # NoResult
    /\ res.nfinal < MaxFinalize
    /\ \E status \in OperationStatus : res' = finalize(res, status, now)
    /\ UNCHANGED <<now, hostVars, pipeVars>>

RTick ==
    /\ now < MaxClock
    /\ now' = now + 1
    /\ UNCHANGED <<res, hostVars, pipeVars>>

NextResult ==
    \/ RCreate
    \/ RAddMessage
    \/ RAddError
    \/ RAddWarning
    \/ RAddResource
    \/ RFinalize
    \/ RTick

SpecResult == InitResult /\ [][NextResult]_vars

----------------------------------------------------------------------------
(* Claims about the result model, checked under SpecResult *)

\* C8 as claimed: the result model itself keeps an error and SUCCESS apart:
\* when finalize is called on a result that has at least one error recorded,
\* the status it leaves is not SUCCESS, whatever status the caller passes.
C8_ErrorExcludesSuccess ==
    [][ (res # NoResult /\ res.nfinal = 0 /\ res'.nfinal = 1 /\ Len(res.errors) > 0)
            => res'.status # "SUCCESS" ]_vars

\* C9 as claimed: after finalize(status), for any status argument, end_time is
\* not before start_time, duration_seconds is end_time minus start_time, the
\* status is terminal and is_complete() is true.
C9_FinalizeCompletes ==
    (res # NoResult /\ res.nfinal > 0) =>
        /\ res.end_time # None
        /\ res.end_time >= res.start_time
        /\ res.duration_seconds = res.end_time - res.start_time
        /\ res.status \in TerminalStatus
        /\ is_complete(res)

\* what does hold of finalize: the times and the duration are as C9 says for
\* every argument, and the status left is the argument, terminal or not
FinalizeSetsTimesAndArgument ==
    (res # NoResult /\ res.nfinal > 0) =>
        /\ res.end_time # None
        /\ res.end_time >= res.start_time
        /\ res.duration_seconds = res.end_time - res.start_time
        /\ res.status = res.farg
        /\ is_complete(res) <=> res.farg \in TerminalStatus

----------------------------------------------------------------------------
(* SpecCmd: BatchRunner.run_command of app/logic.py.                       *)
(* A text is a sequence of characters, each a one-character string; the    *)
(* fixed parts of a formatted message are single elements of the sequence. *)
(* The logger of app.logger and the output callbacks of the repository     *)
(* (a Qt signal emit, a console append) take every message without raising.*)

\* BatchRunner.COMMAND_TIMEOUT, the default of run_command's timeout
COMMAND_TIMEOUT == 300

\* BatchRunner.SERVICE_TIMEOUT, passed by stop_service and control_service
SERVICE_TIMEOUT == 60

\* BatchRunner.SQL_TIMEOUT, the timeout sqlcmd passes when it is given none
SQL_TIMEOUT == 600

\* the timeout arguments followed: the default, and None for no timeout
Timeouts == {COMMAND_TIMEOUT, None}

\* the values of the sql_password setting followed: the empty text stands for
\* an empty string or, with password_none, for None; one of three characters
\* and one of four
Passwords == {<<>>, <<"s", "e", "c">>, <<"s", "e", "c", "r">>}

Pieces(pw) == {<<"-", "P">>, <<" ">>, <<"x">>} \cup (IF pw = <<>> THEN {} ELSE {pw})

RECURSIVE TextsOf(_, _)
\* the texts a process may write: up to n pieces, one after the other
TextsOf(pw, n) ==
    IF n = 0 THEN {<<>>}
    ELSE TextsOf(pw, n - 1) \cup {t \o p : t \in TextsOf(pw, n - 1), p \in Pieces(pw)}

\* the exit codes a process may end with
ExitCodes == {0, 1, 2}

\* the command lists followed: a plain one, one that carries the password
\* after -P, and one with an element that is not a string
Commands(pw) ==
    { [ok |-> TRUE,  args |-> << <<"x">> >>],
      [ok |-> TRUE,  args |-> << <<"x">>, <<"-", "P">>, pw >>],
      [ok |-> FALSE, args |-> << <<"x">> >>] }

RECURSIVE join(_)
\* " ".join(command)
join(args) ==
    IF args = <<>> THEN <<>>
    ELSE IF Len(args) = 1 THEN args[1]
    ELSE args[1] \o <<" ">> \o join(Tail(args))

Drop(t, n) == SubSeq(t, n + 1, Len(t))

RECURSIVE replace(_, _, _)
\* str.replace(old, new) for a non-empty old: the occurrences left to right,
\* not overlapping
replace(t, old, new) ==
    IF Len(t) < Len(old) THEN t
    ELSE IF SubSeq(t, 1, Len(old)) = old
         THEN new \o replace(Drop(t, Len(old)), old, new)
         ELSE <<Head(t)>> \o replace(Tail(t), old, new)

RECURSIVE SpanSpace(_)
\* the length of the longest prefix matched by \s
SpanSpace(t) == IF t # <<>> /\ Head(t) = " " THEN 1 + SpanSpace(Tail(t)) ELSE 0

RECURSIVE SpanToken(_)
\* the length of the longest prefix matched by [^\s]
SpanToken(t) == IF t # <<>> /\ Head(t) # " " THEN 1 + SpanToken(Tail(t)) ELSE 0

Stars == <<"*", "*", "*">>

RECURSIVE sub_P(_)
\* re.sub(r"(-P\s+)([^\s]+)", r"\1***", text)
sub_P(t) ==
    IF Len(t) < 2 THEN t
    ELSE IF t[1] = "-" /\ t[2] = "P"
              /\ SpanSpace(Drop(t, 2)) >= 1
              /\ SpanToken(Drop(t, 2 + SpanSpace(Drop(t, 2)))) >= 1
         THEN SubSeq(t, 1, 2 + SpanSpace(Drop(t, 2))) \o Stars
              \o sub_P(Drop(t, 2 + SpanSpace(Drop(t, 2))
                                + SpanToken(Drop(t, 2 + SpanSpace(Drop(t, 2))))))
         ELSE <<Head(t)>> \o sub_P(Tail(t))

\* BatchRunner._mask_sensitive_data(text), with sql_password = pw
mask_sensitive_data(t, pw) ==
    IF t = <<>> THEN t
    ELSE sub_P(IF pw # <<>> /\ Len(pw) > 3 THEN replace(t, pw, Stars) ELSE t)

\* one message handed to the logger, and by _log_output to the callback too
Line(via, text, is_error) == [via |-> via, text |-> text, is_error |-> is_error]

\* the exceptions that reach the except clauses of run_command:
\* " ".join(command) on an element that is not a string
TypeErrorExc == [type |-> "TypeError", text |-> <<"expected str instance">>]

\* subprocess.run cannot start the process
OSErrorExc == [type |-> "OSError", text |-> <<"cannot start the process">>]

RECURSIVE repr_items(_)
\* the elements of a list of strings as str() shows them: each between
\* quotes, a comma and a blank between two
repr_items(args) ==
    IF args = <<>> THEN <<>>
    ELSE IF Len(args) = 1 THEN <<"'">> \o args[1] \o <<"'">>
    ELSE <<"'">> \o args[1] \o <<"'", ",", " ">> \o repr_items(Tail(args))

\* subprocess.run gives up waiting; str() of the exception shows the command
\* list
TimeoutExpiredExc(command, timeout) ==
    [type |-> "TimeoutExpired",
     text |-> <<"Command '", "[">> \o repr_items(command.args)
              \o <<"]", "' timed out after ", ToString(timeout), " seconds">>]

CommandResult(returncode, stdout, stderr) ==
    [returncode |-> returncode, stdout |-> stdout, stderr |-> stderr]

except_clauses_timeout_only(exc, timeout) ==
    IF exc.type = "TimeoutExpired"
    THEN [raised |-> FALSE,
          ret |-> CommandResult(1, <<>>,
                     <<"Command timed out after ", ToString(timeout), "s: ">> \o exc.text)]
    ELSE [raised |-> TRUE, ret |-> CommandResult(1, <<>>, <<>>)]

\* the two except clauses of run_command: what it returns for exception exc
except_clauses(exc, timeout) ==
    IF exc.type = "TimeoutExpired"
    THEN [raised |-> FALSE,
          ret |-> CommandResult(1, <<>>,
                     <<"Command timed out after ", ToString(timeout), "s: ">> \o exc.text)]
    ELSE [raised |-> FALSE,
          ret |-> CommandResult(1, <<>>, <<"Command execution failed: ">> \o exc.text)]

NoProcess == [returncode |-> None]

\* no call made yet, with sql_password = pw, or None when isnone.  caller,
\* entered, spawns, relogged, how and proc are history fields: who called
\* run_command, whether run_command was entered, how often subprocess.run was
\* called, whether the caller logged what it got back, how the call ended, and
\* what the process gave.
NewCall(pw, isnone) ==
    [pc |-> "idle", password |-> pw, password_none |-> isnone,
     caller |-> "none", entered |-> FALSE, spawns |-> 0, relogged |-> FALSE,
     command |-> [ok |-> TRUE, args |-> <<>>],
     timeout |-> None, how |-> "none", proc |-> NoProcess,
     ret |-> NoProcess, raised |-> FALSE, log |-> <<>>]

\* run_command from the raise of exc inside the try block to its end
Caught(c, exc) ==
    IF except_clauses(exc, c.timeout).raised
    THEN [c EXCEPT !.pc = "raised", !.how = exc.type, !.raised = TRUE]
    ELSE [c EXCEPT !.pc = "returned",
                   !.how = exc.type,
                   !.ret = except_clauses(exc, c.timeout).ret,
                   !.log = Append(@, Line("log_output",
                                          except_clauses(exc, c.timeout).ret.stderr, TRUE))]

\* run_command(command, timeout=timeout) up to the call of subprocess.run
run_command_entry(c, command, timeout) ==
    IF ~command.ok
    THEN Caught([c EXCEPT !.entered = TRUE, !.command = command, !.timeout = timeout],
                TypeErrorExc)
    ELSE [c EXCEPT
            !.pc = "running",
            !.entered = TRUE,
            !.spawns = @ + 1,
            !.command = command,
            !.timeout = timeout,
            !.log = Append(@, Line("log_output",
                       <<"Executing: ">>
                       \o mask_sensitive_data(join(command.args), c.password),
                       FALSE))]

not_configured_never(pw) == FALSE

\* sqlcmd: not sql_password
not_configured(pw) == pw = <<>>

\* sqlcmd: the command list, with the password after -P; a password that is
\* None is an element that is not a string
sqlcmd_command(pw, isnone, query) ==
    [ok |-> ~isnone,
     args |-> << <<"sqlcmd">>, <<"-", "P">>, pw, <<"-", "Q">>, query >>]

InitCmd ==
    /\ \E pw \in Passwords, isnone \in BOOLEAN :
         /\ isnone => pw = <<>>
         /\ cmd = NewCall(pw, isnone)
    /\ bk = NoCall
    /\ prs = NoCall
    /\ rs = NoCall
    /\ cl = NoCall
    /\ ParkedResult
    /\ ParkedHost

\* run_command called by a caller other than sqlcmd
CmdCall ==
    /\ cmd.pc = "idle"
    /\ \E command \in Commands(cmd.password), timeout \in Timeouts :
         cmd' = run_command_entry([cmd EXCEPT !.caller = "direct"], command, timeout)
    /\ UNCHANGED <<resultVars, hostVars, bk, prs, rs, cl>>

\* sqlcmd(query): without a password it returns at once, else it calls
\* run_command with the sqlcmd command list and SQL_TIMEOUT
Sqlcmd ==
    /\ cmd.pc = "idle"
    /\ cmd' = IF not_configured(cmd.password)
              THEN [cmd EXCEPT
                      !.pc = "returned",
                      !.caller = "sqlcmd",
                      !.how = "no_password",
                      !.ret = CommandResult(1, <<>>, <<"SQL password not configured">>),
                      !.log = Append(@, Line("logger", <<"SQL password not available">>, TRUE))]
              ELSE run_command_entry([cmd EXCEPT !.caller = "sqlcmd"],
                                     sqlcmd_command(cmd.password, cmd.password_none, <<"q">>),
                                     SQL_TIMEOUT)
    /\ UNCHANGED <<resultVars, hostVars, bk, prs, rs, cl>>

\* the helpers of BatchRunner that call run_command themselves
Helpers ==
    {"stop_service", "delete_service", "control_service_start", "control_service_stop",
     "test_sql_connection", "fetch_databases", "cleanup_registry"}

\* the command list each helper builds, for a service named S
helper_command(h, pw, isnone) ==
    CASE h \in {"stop_service", "control_service_stop"} ->
           [ok |-> TRUE, args |-> << <<"net">>, <<"stop">>, <<"S">> >>]
      [] h = "control_service_start" ->
           [ok |-> TRUE, args |-> << <<"net">>, <<"start">>, <<"S">> >>]
      [] h = "delete_service" ->
           [ok |-> TRUE, args |-> << <<"sc">>, <<"delete">>, <<"S">> >>]
      [] h = "test_sql_connection" -> sqlcmd_command(pw, isnone, <<"SELECT 1">>)
      [] h = "fetch_databases" -> sqlcmd_command(pw, isnone, <<"SELECT name">>)
      [] OTHER ->
           [ok |-> TRUE, args |-> << <<"powershell">>, <<"-Command">>, <<"x">> >>]

\* the timeout each helper calls run_command with: stop_service and
\* control_service pass SERVICE_TIMEOUT, test_sql_connection 10 and
\* fetch_databases 15; delete_service and cleanup_registry pass none and get
\* the default of the parameter
helper_timeout(h) ==
    CASE h \in {"stop_service", "control_service_start", "control_service_stop"} ->
           SERVICE_TIMEOUT
      [] h = "test_sql_connection" -> 10
      [] h = "fetch_databases" -> 15
      [] OTHER -> COMMAND_TIMEOUT

\* one of the helpers calls run_command
HelperCall ==
    /\ cmd.pc = "idle"
    /\ \E h \in Helpers :
         cmd' = run_command_entry([cmd EXCEPT !.caller = h],
                                  helper_command(h, cmd.password, cmd.password_none),
                                  helper_timeout(h))
    /\ UNCHANGED <<resultVars, hostVars, bk, prs, rs, cl>>

\* subprocess.run raises because the process cannot be started
CmdSpawnFail ==
    /\ cmd.pc = "running"
    /\ cmd' = Caught(cmd, OSErrorExc)
    /\ UNCHANGED <<resultVars, hostVars, bk, prs, rs, cl>>

\* the process ends within the timeout: run_command logs what it wrote,
\* masked, and returns what it gave
CmdComplete ==
    /\ cmd.pc = "running"
    /\ \E rc \in ExitCodes,
          out \in TextsOf(cmd.password, MaxPieces),
          err \in TextsOf(cmd.password, MaxPieces) :
         cmd' = [cmd EXCEPT
                   !.pc = "returned",
                   !.how = "completed",
                   !.proc = CommandResult(rc, out, err),
                   !.ret = CommandResult(rc, out, err),
                   !.log = @ \o << Line("logger",
                                        <<"Command completed with return code: ", ToString(rc)>>,
                                        FALSE) >>
                             \o (IF out # <<>>
                                 THEN << Line("log_output",
                                              mask_sensitive_data(out, cmd.password), FALSE) >>
                                 ELSE <<>>)
                             \o (IF err # <<>>
                                 THEN << Line("log_output",
                                              mask_sensitive_data(err, cmd.password), TRUE) >>
                                 ELSE <<>>)]
    /\ UNCHANGED <<resultVars, hostVars, bk, prs, rs, cl>>

\* the process is still running when the timeout expires
CmdTimeout ==
    /\ cmd.pc = "running"
    /\ cmd.timeout # None
    /\ cmd' = Caught(cmd, TimeoutExpiredExc(cmd.command, cmd.timeout))
    /\ UNCHANGED <<resultVars, hostVars, bk, prs, rs, cl>>

\* cleanup_registry, lines 496-502: the caller of run_command logs the
\* stdout and the stderr it got back
CleanupRegistryLog ==
    /\ cmd.pc = "returned"
    /\ cmd.caller = "direct"
    /\ ~cmd.relogged
    /\ cmd' = [cmd EXCEPT
                 !.relogged = TRUE,
                 !.log = @ \o (IF cmd.ret.stdout # <<>>
                               THEN << Line("log_output", cmd.ret.stdout, FALSE) >>
                               ELSE <<>>)
                           \o (IF cmd.ret.stderr # <<>>
                               THEN << Line("log_output", cmd.ret.stderr, TRUE) >>
                               ELSE <<>>)]
    /\ UNCHANGED <<resultVars, hostVars, bk, prs, rs, cl>>

\* get_backup_filelist, lines 1047-1078: the caller of sqlcmd logs the stderr
\* of a failed command, and the stdout it finds no logical names in
FilelistLog ==
    /\ cmd.pc = "returned"
    /\ cmd.caller = "sqlcmd"
    /\ ~cmd.relogged
    /\ cmd' = [cmd EXCEPT
                 !.relogged = TRUE,
                 !.log = Append(@,
                     IF cmd.ret.returncode # 0
                     THEN Line("log_output",
                               <<"RESTORE FILELISTONLY failed: ">> \o cmd.ret.stderr, TRUE)
                     ELSE Line("log_output",
                               <<"Could not parse logical names from output: ">>
                               \o cmd.ret.stdout, FALSE))]
    /\ UNCHANGED <<resultVars, hostVars, bk, prs, rs, cl>>

NextCmd ==
    \/ CmdCall
    \/ Sqlcmd
    \/ HelperCall
    \/ CmdSpawnFail
    \/ CmdComplete
    \/ CmdTimeout
    \/ CleanupRegistryLog
    \/ FilelistLog

SpecCmd == InitCmd /\ [][NextCmd]_vars

----------------------------------------------------------------------------
(* Claims about run_command, checked under SpecCmd *)

\* C10: run_command never raises to its caller.  When the process ends within
\* the timeout it returns the exit code, stdout and stderr the process gave,
\* not the masked texts it logged; when the process exceeds the timeout or
\* cannot be started it returns a nonzero code, an empty stdout and a stderr
\* message that is not empty.
C10_RunCommandNeverRaises ==
    /\ cmd.pc \in {"none", "idle", "running", "returned"}
    /\ (cmd.pc = "returned" /\ cmd.entered) =>
         /\ ~cmd.raised
         /\ cmd.how = "completed" => cmd.ret = cmd.proc
         /\ cmd.how # "completed" =>
              /\ cmd.how \in {"TimeoutExpired", "OSError", "TypeError"}
              /\ cmd.ret.returncode # 0
              /\ cmd.ret.stdout = <<>>
              /\ cmd.ret.stderr # <<>>

\* a call that completed, returned a stdout with the password in it, and
\* logged that stdout masked
C10_Witness ==
    /\ cmd.pc = "returned"
    /\ cmd.entered
    /\ cmd.how = "completed"
    /\ cmd.ret.returncode = 2
    /\ cmd.ret.stdout = cmd.password \o <<"x">>
    /\ \E i \in DOMAIN cmd.log : cmd.log[i].text = Stars \o <<"x">>

\* text t holds text p as a substring
Contains(t, p) ==
    \E i \in 1 .. Len(t) - Len(p) + 1 : SubSeq(t, i, i + Len(p) - 1) = p

\* C11 as claimed: no message handed to the logger or to the output subscriber
\* holds the configured SQL password in clear, whatever its length, on every
\* path that logs a command line or the output of a command.
C11_NoSecretInLog ==
    (cmd.pc # "none" /\ cmd.password # <<>>) =>
        \A i \in DOMAIN cmd.log : ~Contains(cmd.log[i].text, cmd.password)

\* what does hold: the line that announces the command never shows the token
\* that follows -P, and a password of more than three characters is not in a
\* line run_command makes of the process output
ExecutingLineIsMasked ==
    (cmd.pc # "none" /\ cmd.password # <<>>) =>
        \A i \in DOMAIN cmd.log :
            /\ (cmd.log[i].text # <<>> /\ Head(cmd.log[i].text) = "Executing: ")
                  => ~Contains(cmd.log[i].text, cmd.password)
            /\ (Len(cmd.password) > 3 /\ ~cmd.relogged /\ cmd.how = "completed")
                  => ~Contains(cmd.log[i].text, cmd.password)

\* C12: without a configured password, None or empty, sqlcmd returns a
\* nonzero code and a stderr message that is not empty, run_command is not
\* entered and subprocess.run is not called.
C12_NoPasswordNoProcess ==
    (cmd.pc # "none" /\ cmd.caller = "sqlcmd" /\ cmd.password = <<>>) =>
        /\ cmd.pc = "returned"
        /\ ~cmd.entered
        /\ cmd.spawns = 0
        /\ cmd.ret.returncode # 0
        /\ cmd.ret.stdout = <<>>
        /\ cmd.ret.stderr # <<>>

C12_Witness ==
    /\ cmd.pc = "returned"
    /\ cmd.caller = "sqlcmd"
    /\ cmd.password = <<>>
    /\ ~cmd.password_none
    /\ cmd.how = "no_password"

\* the timeout of the class of a command: the service timeout for net and
\* sc, the database timeout for sqlcmd, the default for the others
ClassTimeout(command) ==
    IF command.args[1] \in {<<"net">>, <<"sc">>} THEN SERVICE_TIMEOUT
    ELSE IF command.args[1] = <<"sqlcmd">> THEN SQL_TIMEOUT
    ELSE COMMAND_TIMEOUT

\* C35: every command the helpers of BatchRunner give to run_command has a
\* finite timeout, that of its class: 60 s for net stop, sc delete and net
\* start, 600 s for every sqlcmd invocation, the default for the others.
C35_TimeoutOfCommandClass ==
    (cmd.pc # "none" /\ cmd.entered /\ cmd.caller # "direct") =>
        /\ cmd.timeout # None
        /\ cmd.timeout = ClassTimeout(cmd.command)

\* what does hold: every helper passes a finite timeout; net stop and net
\* start get 60 s and the queries sent through sqlcmd() 600 s, while sc
\* delete gets the default 300 s, the connection test 10 s and the database
\* list 15 s
TimeoutPerHelper ==
    (cmd.pc # "none" /\ cmd.entered /\ cmd.caller # "direct") =>
        /\ cmd.timeout # None
        /\ cmd.timeout =
             CASE cmd.caller = "delete_service" -> COMMAND_TIMEOUT
               [] cmd.caller = "test_sql_connection" -> 10
               [] cmd.caller = "fetch_databases" -> 15
               [] OTHER -> ClassTimeout(cmd.command)

----------------------------------------------------------------------------
(* SpecBackup: BatchRunner.execute_backup of app/logic.py, one call from   *)
(* its first statement to its return.  The SQL server, the file system and *)
(* the configuration answer each step in every way they can.  res is the   *)
(* result the pipeline builds; bk holds its locals and what it did.        *)

\* the databases setting: the configured databases, by number
ConfigDatabases == [i \in 1 .. MaxDbs |-> i]

\* the names of the appsettings_files setting, by number
ConfigAppSettings == 1 .. MaxApps

\* the selected_dbs argument: not given (None), or the first k configured ones
DbArguments ==
    {[given |-> FALSE, value |-> <<>>]}
    \cup {[given |-> TRUE, value |-> SubSeq(ConfigDatabases, 1, k)] : k \in 0 .. MaxDbs - 1}

\* the selected_appsettings argument: not given (None), or no name at all
AppArguments ==
    {[given |-> FALSE, value |-> {}], [given |-> TRUE, value |-> {}]}

\* a message, warning, error or output line of the pipeline: its fixed text
\* and the database or file it is about, 0 for none
Msg(text, about) == [text |-> text, about |-> about]

BakFile(db) == [kind |-> "bak", id |-> db]

AppFile(item) == [kind |-> "appsettings", id |-> item]

\* zip_file: no complete archive made, and no unfinished file left
NoArchive == [made |-> FALSE, left |-> FALSE, files |-> {}]

\* the sql_password setting: None, the empty string, or a password
PasswordSettings == {"none", "empty", "set"}

\* the call not made yet.  password is the sql_password setting the call
\* meets, fields the branch_code and pos_number settings it meets.
\* preflight, backed_up, copied, rmtree_tried, spawned, log, revealed,
\* atfinal and raised are history fields: how the connectivity test ended,
\* the databases whose BACKUP command ended with code 0 and left a file with
\* data, the appsettings files copied, whether the removal of the temp
\* directory at the end was tried, the databases whose shrink failed and the
\* appsettings files whose copy failed, the SQL commands started, the lines given
\* to _log_output, whether os.startfile was called, the result as the
\* finalize call left it, and whether the call ended by an exception.
NewBackup ==
    [pc |-> "idle", password |-> "unread", preflight |-> "none", backed_up |-> {},
     fields |-> "unread", copied |-> {}, rmtree_tried |-> FALSE,
     shrink_failed |-> {}, copy_failed |-> {},
     selected_dbs |-> <<>>, selected_appsettings |-> {},
     timestamp |-> None, new_timestamp |-> None,
     backup_folder |-> "unset", main_dir |-> FALSE, temp_dir |-> "absent", temp_files |-> {},
     i |-> 1, j |-> 1,
     backup_results |-> <<>>, valid_bak_files |-> <<>>, appsettings_results |-> <<>>,
     zip_success |-> FALSE, archive |-> NoArchive,
     spawned |-> <<>>, log |-> <<>>, revealed |-> FALSE,
     atfinal |-> NoResult, raised |-> FALSE]

InitBackup ==
    /\ bk = NewBackup
    /\ cmd = NoCall
    /\ prs = NoCall
    /\ rs = NoCall
    /\ cl = NoCall
    /\ ParkedResult
    /\ ParkedHost

\* return result: the call ends; f is the result as its finalize call left it
Return(b, f) == [b EXCEPT !.pc = "returned", !.atfinal = f]

\* lines 752-762: the result is created and marked RUNNING, the arguments default
BkCall ==
    /\ bk.pc = "idle"
    /\ \E dbs \in DbArguments, apps \in AppArguments :
         bk' = [bk EXCEPT
                  !.pc = "connect",
                  !.timestamp = now,
                  !.selected_dbs = IF dbs.given THEN dbs.value ELSE ConfigDatabases,
                  !.selected_appsettings =
                      IF apps.given THEN apps.value ELSE ConfigAppSettings]
    /\ res' = BeginPipeline("backup", now)
    /\ UNCHANGED <<now, hostVars, cmd, prs, rs, cl>>

\* an abort that finalizes with another status than FAILED
AbortPartial(r, text, t) == finalize(add_error(r, Msg(text, 0)), "PARTIAL_SUCCESS", t)

\* result.add_error(text); result.finalize(OperationStatus.FAILED)
AbortFailed(r, text, t) == finalize(add_error(r, Msg(text, 0)), "FAILED", t)

Logged(b, text, about, is_error) ==
    [b EXCEPT !.log = Append(@, Line("log_output", Msg(text, about), is_error))]

\* lines 765-772: test_sql_connection builds its own command; with a
\* password that is None run_command cannot join it and starts no process,
\* with an empty or a set password the sqlcmd process is started
BkConnect ==
    /\ bk.pc = "connect"
    /\ \E password \in PasswordSettings, connected \in BOOLEAN :
         IF password # "none" /\ connected
         THEN /\ bk' = [bk EXCEPT !.pc = "setup",
                                  !.password = password,
                                  !.preflight = "passed",
                                  !.spawned = Append(@, Msg("SELECT 1", 0))]
              /\ res' = res
         ELSE /\ res' = AbortFailed(res, "SQL Connection Failed. check credentials.", now)
              /\ bk' = Return([bk EXCEPT !.password = password,
                                         !.preflight = "failed",
                                         !.spawned = IF password # "none"
                                                     THEN Append(@, Msg("SELECT 1", 0))
                                                     ELSE @],
                              AbortFailed(res, "SQL Connection Failed. check credentials.", now))
    /\ UNCHANGED <<now, hostVars, cmd, prs, rs, cl>>

\* the backup_folder setting: a path that resolves as it is, a path under
\* Users, and a drive path that ends with the separator
FolderSettings == {"plain", "users", "drive_with_separator"}

\* lines 805-817 with the temp directory created
SetupDone(b) ==
    [Logged(b, "[*] Created temporary backup directory", 0, FALSE) EXCEPT
        !.pc = "db", !.main_dir = TRUE, !.temp_dir = "present", !.temp_files = {}]

\* lines 775-825: the backup folder is resolved and the directories made.
\* For a drive path that ends with the separator no branch binds
\* raw_backup_folder and line 787 raises UnboundLocalError.
BkSetup ==
    /\ bk.pc = "setup"
    /\ \E folder \in FolderSettings, mkdir \in {"ok", "main_failed", "temp_failed"} :
         IF folder = "drive_with_separator"
         THEN /\ bk' = [bk EXCEPT !.pc = "raised", !.raised = TRUE]
              /\ res' = res
         ELSE LET b1 == IF folder = "users"
                        THEN [Logged(Logged(bk, "[!] Access Warning", 0, FALSE),
                                     "[!] Switching to safe public path", 0, FALSE)
                                 EXCEPT !.backup_folder = "fallback"]
                        ELSE [bk EXCEPT !.backup_folder = "configured"]
              IN IF mkdir = "ok"
                 THEN /\ bk' = SetupDone(b1)
                      /\ res' = IF b1.selected_dbs = <<>>
                                 THEN add_warning(add_message(res, Msg("Backup directory", 0)),
                                                  Msg("No databases selected for backup.", 0))
                                 ELSE add_message(res, Msg("Backup directory", 0))
                 ELSE /\ res' = AbortFailed(res, "Failed to create temp directory", now)
                      /\ bk' = Return([b1 EXCEPT !.main_dir = (mkdir = "temp_failed")],
                                      AbortFailed(res, "Failed to create temp directory", now))
    /\ UNCHANGED <<now, hostVars, cmd, prs, rs, cl>>

\* a shrink whose failure is recorded as an error
record_shrink_as_error(r, shrink_success, db) ==
    IF shrink_success
    THEN add_message(r, Msg("Shrunk", db))
    ELSE add_error(r, Msg("Shrink failed", db))

\* lines 833-836: what the result keeps of the shrink
record_shrink(r, shrink_success, db) ==
    IF shrink_success
    THEN add_message(r, Msg("Shrunk", db))
    ELSE add_warning(r, Msg("Shrink failed", db))

\* lines 827-863: one turn of the loop over selected_dbs.  file is what is at
\* backup_path after the BACKUP command: nothing, an empty file, or data.
\* With an empty password sqlcmd fails both commands without starting them.
BkDatabase ==
    /\ bk.pc = "db"
    /\ bk.i <= Len(bk.selected_dbs)
    /\ \E shrink_success \in BOOLEAN, backup_success \in BOOLEAN,
          file \in {"none", "empty", "data"} :
         /\ bk.password = "empty" => (~shrink_success /\ ~backup_success /\ file = "none")
         /\ LET db == bk.selected_dbs[bk.i]
                r1 == record_shrink(res, shrink_success, db)
                b1 == [Logged(Logged(Logged(bk, "[*] Processing Database", db, FALSE),
                                     "Shrinking...", 0, FALSE),
                              "Backing up to", db, FALSE)
                         EXCEPT !.spawned = IF bk.password = "empty" THEN @
                                             ELSE @ \o <<Msg("DBCC SHRINKDATABASE", db),
                                                         Msg("BACKUP DATABASE", db)>>,
                                !.shrink_failed = IF shrink_success THEN @ ELSE @ \cup {db},
                                !.temp_files = IF file = "none" THEN @ ELSE @ \cup {BakFile(db)},
                                !.i = @ + 1]
            IN IF backup_success /\ file = "data"
               THEN /\ bk' = [Logged(b1, "SUCCESS", db, FALSE) EXCEPT
                                 !.backed_up = @ \cup {db},
                                 !.valid_bak_files = Append(@, db),
                                 !.backup_results = Append(@, TRUE)]
                    /\ res' = add_resource(r1, [type |-> "DATABASE", name |-> db, path |-> BakFile(db)])
               ELSE /\ bk' = [Logged(b1, "FAILED", db, TRUE) EXCEPT
                                 !.backup_results = Append(@, FALSE)]
                    /\ res' = add_error(r1, Msg("Backup failed for", db))
    /\ UNCHANGED <<now, hostVars, cmd, prs, rs, cl>>

\* lines 866-872: the loop over selected_dbs is over
BkAppSettingsBegin ==
    /\ bk.pc = "db"
    /\ bk.i > Len(bk.selected_dbs)
    /\ bk' = [Logged(bk, "[*] Processing AppSettings...", 0, FALSE) EXCEPT !.pc = "apps"]
    /\ res' = IF bk.selected_appsettings = {}
               THEN add_warning(res, Msg("No AppSettings selected for backup.", 0))
               ELSE res
    /\ UNCHANGED <<now, hostVars, cmd, prs, rs, cl>>

\* lines 874-886 and copy_appsettings: one turn of the loop over the
\* configured appsettings files
BkAppSettings ==
    /\ bk.pc = "apps"
    /\ bk.j <= MaxApps
    /\ IF bk.j \notin bk.selected_appsettings
       THEN /\ bk' = [bk EXCEPT !.j = @ + 1]
            /\ res' = res
       ELSE \E copy \in {"not_found", "copied", "copy_failed"} :
              IF copy = "copied"
              THEN /\ bk' = [Logged(bk, "Copying", bk.j, FALSE) EXCEPT
                                !.j = @ + 1,
                                !.temp_files = @ \cup {AppFile(bk.j)},
                                !.copied = @ \cup {bk.j},
                                !.appsettings_results = Append(@, TRUE)]
                   /\ res' = add_message(res, Msg("Copied", bk.j))
              ELSE /\ bk' = [Logged(bk, IF copy = "not_found" THEN "File not found"
                                                               ELSE "Failed to copy",
                                    bk.j, copy = "copy_failed") EXCEPT
                                !.j = @ + 1,
                                !.copy_failed = @ \cup {bk.j},
                                !.appsettings_results = Append(@, FALSE)]
                   /\ res' = add_warning(res, Msg("Failed to copy", bk.j))
    /\ UNCHANGED <<now, hostVars, cmd, prs, rs, cl>>

\* the branch_code and pos_number settings: which of them are not empty
FieldSettings == {"both", "branch_code_only", "pos_number_only", "neither"}

\* a check of the mandatory fields that never finds one missing
missing_field_never(fields) == "none"

\* lines 894 and 901: the first mandatory field found empty
missing_field(fields) ==
    IF fields \in {"pos_number_only", "neither"} THEN "branch_code"
    ELSE IF fields = "branch_code_only" THEN "pos_number"
    ELSE "none"

\* lines 890-934: the mandatory fields, the archive name, and the check that
\* there is something to archive
BkArchiveName ==
    /\ bk.pc = "apps"
    /\ bk.j > MaxApps
    /\ \E fields \in FieldSettings :
         IF missing_field(fields) = "branch_code"
         THEN /\ res' = AbortFailed(res, "Branch Code is required for backup.", now)
              /\ bk' = Return([bk EXCEPT !.fields = fields],
                              AbortFailed(res, "Branch Code is required for backup.", now))
         ELSE IF missing_field(fields) = "pos_number"
         THEN /\ res' = AbortFailed(res, "POS Number is required for backup.", now)
              /\ bk' = Return([bk EXCEPT !.fields = fields],
                              AbortFailed(res, "POS Number is required for backup.", now))
         ELSE IF bk.valid_bak_files = <<>> /\ bk.appsettings_results = <<>>
         THEN /\ res' = AbortFailed(res, "No files successfully generated to backup.", now)
              /\ bk' = Return([bk EXCEPT !.fields = fields, !.new_timestamp = now],
                              AbortFailed(res, "No files successfully generated to backup.", now))
         ELSE /\ res' = res
              /\ bk' = [Logged(bk, "[*] Creating Archive", 0, FALSE) EXCEPT
                           !.pc = "zip", !.fields = fields, !.new_timestamp = now]
    /\ UNCHANGED <<now, hostVars, cmd, prs, rs, cl>>

\* lines 937-963: the files of the temp directory are written to the archive
\* and the archive is verified.  A crash may leave an unfinished file at
\* zip_file.
BkZip ==
    /\ bk.pc = "zip"
    /\ \E zip \in {"written", "empty_or_missing", "crashed", "crashed_file_left"} :
         IF zip = "written"
         THEN /\ bk' = [Logged(bk, "Archive Created Successfully", 0, FALSE) EXCEPT
                           !.pc = "cleanup",
                           !.zip_success = TRUE,
                           !.archive = [made |-> TRUE, left |-> TRUE, files |-> bk.temp_files]]
              /\ res' = add_resource(res, [type |-> "FILE", name |-> 0, path |-> "zip_file"])
         ELSE IF zip = "empty_or_missing"
         THEN /\ bk' = [bk EXCEPT !.pc = "cleanup"]
              /\ res' = add_error(res, Msg("Zip file creation failed (empty or missing).", 0))
         ELSE /\ bk' = [Logged(bk, "Zip creation crashed", 0, TRUE) EXCEPT
                           !.pc = "cleanup",
                           !.archive = [made |-> FALSE, left |-> (zip = "crashed_file_left"),
                                         files |-> {}]]
              /\ res' = add_error(res, Msg("Zip creation crashed", 0))
    /\ UNCHANGED <<now, hostVars, cmd, prs, rs, cl>>

\* line 973
all_dbs_ok(b) ==
    IF b.selected_dbs # <<>>
    THEN \A k \in DOMAIN b.backup_results : b.backup_results[k]
    ELSE TRUE

\* a status that looks at the archive alone
final_status_zip_only(b) == IF b.zip_success THEN "SUCCESS" ELSE "FAILED"

\* lines 975-986: the status execute_backup finalizes with
final_status(b) ==
    IF b.zip_success /\ all_dbs_ok(b) THEN "SUCCESS"
    ELSE IF b.zip_success THEN "PARTIAL_SUCCESS"
    ELSE "FAILED"

\* lines 984, 987 and 989: what execute_backup does to the result after the
\* finalize call
after_finalize(r) ==
    set_context(
        IF r.status = "PARTIAL_SUCCESS"
        THEN add_warning(r, Msg("Backup archive created but some databases failed.", 0))
        ELSE IF r.status = "FAILED"
        THEN add_error(r, Msg("Backup operation failed to produce an archive.", 0))
        ELSE r,
        "zip_file")

\* lines 966-990: the temp directory is removed, the result is finalized, and
\* the result is returned
BkFinish ==
    /\ bk.pc = "cleanup"
    /\ \E removed \in BOOLEAN :
         /\ res' = after_finalize(finalize(res, final_status(bk), now))
         /\ bk' = Return([bk EXCEPT
                             !.rmtree_tried = TRUE,
                             !.temp_dir = IF removed THEN "removed" ELSE @,
                             !.temp_files = IF removed THEN {} ELSE @,
                             !.revealed = (final_status(bk) = "SUCCESS")],
                         finalize(res, final_status(bk), now))
    /\ UNCHANGED <<now, hostVars, cmd, prs, rs, cl>>

\* the clock advances while the call is under way
BkTick ==
    /\ bk.pc \notin {"none", "idle", "returned", "raised"}
    /\ now < MaxClock
    /\ now' = now + 1
    /\ UNCHANGED <<res, hostVars, pipeVars>>

NextBackup ==
    \/ BkCall
    \/ BkConnect
    \/ BkSetup
    \/ BkDatabase
    \/ BkAppSettingsBegin
    \/ BkAppSettings
    \/ BkArchiveName
    \/ BkZip
    \/ BkFinish
    \/ BkTick

SpecBackup == InitBackup /\ [][NextBackup]_vars

----------------------------------------------------------------------------
(* Claims about execute_backup, checked under SpecBackup *)

\* C7 as claimed: the pipeline finalizes its result exactly once, and the
\* result it returns is the result as finalize left it: no message, warning,
\* error or resource appended, the context not written, end time and duration
\* not recomputed.
C7_FinalizedOnceThenFrozen ==
    bk.pc = "returned" =>
        /\ res.nfinal = 1
        /\ res.messages = bk.atfinal.messages
        /\ res.warnings = bk.atfinal.warnings
        /\ res.errors = bk.atfinal.errors
        /\ res.affected_resources = bk.atfinal.affected_resources
        /\ res.context = bk.atfinal.context
        /\ res.end_time = bk.atfinal.end_time
        /\ res.duration_seconds = bk.atfinal.duration_seconds

\* what does hold: one finalize call on every path that returns, and status,
\* end time and duration as that call left them
FinalizedOnce ==
    bk.pc = "returned" =>
        /\ res.nfinal = 1
        /\ res.status = bk.atfinal.status
        /\ res.end_time = bk.atfinal.end_time
        /\ res.duration_seconds = bk.atfinal.duration_seconds

\* the SQL commands execute_backup started other than the connectivity test
WorkCommands == {k \in DOMAIN bk.spawned : bk.spawned[k] # Msg("SELECT 1", 0)}

\* nothing of the backup was done: no directory made or removed, no file
\* written or copied into the temp directory, no archive, no folder opened
NoSideEffect ==
    /\ ~bk.main_dir
    /\ bk.temp_dir = "absent"
    /\ bk.temp_files = {}
    /\ bk.archive = NoArchive
    /\ ~bk.revealed
    /\ WorkCommands = {}

\* C15: when the connectivity test fails, execute_backup returns FAILED and
\* has done nothing else: no directory made or removed, no shrink or backup
\* command started, no file copied, no archive written.
C15_PreflightFailureHasNoSideEffect ==
    (bk.pc = "returned" /\ bk.preflight = "failed") =>
        /\ res.status = "FAILED"
        /\ NoSideEffect

\* a run with a password set whose connectivity test was started and failed
C15_Witness ==
    /\ bk.pc = "returned"
    /\ bk.preflight = "failed"
    /\ bk.password = "set"
    /\ bk.spawned = <<Msg("SELECT 1", 0)>>
    /\ bk.selected_dbs # <<>>
    /\ res.status = "FAILED"

\* a call with nothing selected: an empty list of databases and an empty
\* list of appsettings files
EmptySelection == bk.selected_dbs = <<>> /\ bk.selected_appsettings = {}

\* C16: called with an empty database selection and an empty appsettings
\* selection, execute_backup returns FAILED and writes no archive, whatever
\* the connectivity test gives and whatever the configuration is.
C16_EmptySelectionReturnsFailed ==
    (bk.pc \in {"returned", "raised"} /\ EmptySelection) =>
        /\ bk.pc = "returned"
        /\ res.status = "FAILED"
        /\ bk.archive = NoArchive

\* what does hold: with nothing selected no archive is ever written, and a
\* call that returns returns FAILED
EmptySelectionNoArchive ==
    (bk.pc # "idle" /\ EmptySelection) =>
        /\ bk.archive = NoArchive
        /\ bk.pc = "returned" => res.status = "FAILED"

\* the archive was written whole and found on disk with data in it
ArchiveProduced == bk.archive.made

\* every selected database was backed up: its BACKUP command ended with code
\* 0 and left a file with data
AllBackedUp == \A k \in DOMAIN bk.selected_dbs : bk.selected_dbs[k] \in bk.backed_up

\* C17: a run that returns has status SUCCESS exactly when the archive was
\* produced and every selected database was backed up, PARTIAL_SUCCESS
\* exactly when the archive was produced and some selected database was not,
\* and FAILED in every other case.
C17_StatusFromArchiveAndDatabases ==
    bk.pc = "returned" =>
        /\ res.status = "SUCCESS" <=> (ArchiveProduced /\ AllBackedUp)
        /\ res.status = "PARTIAL_SUCCESS" <=> (ArchiveProduced /\ ~AllBackedUp)
        /\ res.status = "FAILED" <=> ~ArchiveProduced

\* a run of two databases, one backed up and one not, that made its archive
C17_Witness ==
    /\ bk.pc = "returned"
    /\ Len(bk.selected_dbs) = 2
    /\ Cardinality(bk.backed_up) = 1
    /\ ArchiveProduced
    /\ res.status = "PARTIAL_SUCCESS"

\* the places of the resources of a type in result.affected_resources
ResourcesOf(type) ==
    {k \in DOMAIN res.affected_resources : res.affected_resources[k].type = type}

\* C18: in a run that ends SUCCESS, affected_resources has exactly one
\* DATABASE resource for each selected database and none for any other,
\* exactly one FILE resource, the archive, and every DATABASE resource comes
\* before the FILE resource.
C18_SuccessResources ==
    (bk.pc = "returned" /\ res.status = "SUCCESS") =>
        /\ \A d \in DOMAIN bk.selected_dbs :
              Cardinality({k \in ResourcesOf("DATABASE") :
                              res.affected_resources[k].name = bk.selected_dbs[d]}) = 1
        /\ Cardinality(ResourcesOf("DATABASE")) = Len(bk.selected_dbs)
        /\ Cardinality(ResourcesOf("FILE")) = 1
        /\ \A f \in ResourcesOf("FILE") :
              /\ res.affected_resources[f].path = "zip_file"
              /\ \A k \in ResourcesOf("DATABASE") : k < f
        /\ ResourcesOf("DATABASE") \cup ResourcesOf("FILE") = DOMAIN res.affected_resources

\* a SUCCESS run of two databases: two DATABASE resources, then the archive
C18_Witness ==
    /\ bk.pc = "returned"
    /\ res.status = "SUCCESS"
    /\ Len(bk.selected_dbs) = 2
    /\ Len(res.affected_resources) = 3
    /\ res.affected_resources[3].type = "FILE"

\* C23: a backup run that produces no database backup file and copies no
\* appsettings file ends FAILED and makes no archive; it never ends SUCCESS
\* or PARTIAL_SUCCESS with an empty archive.
C23_NoContentFailsWithoutArchive ==
    (bk.pc = "returned" /\ bk.valid_bak_files = <<>> /\ bk.copied = {}) =>
        /\ res.status = "FAILED"
        /\ ~bk.archive.made

\* what does hold: the run is stopped when no database was backed up and no
\* copy was tried; a copy that was tried and failed lets the archive step run
NoContentNoCopyTriedFails ==
    (bk.pc = "returned" /\ bk.valid_bak_files = <<>> /\ bk.appsettings_results = <<>>) =>
        /\ res.status = "FAILED"
        /\ bk.archive = NoArchive

\* the run read the branch_code and pos_number settings and one is empty
FieldMissing == bk.fields \in {"branch_code_only", "pos_number_only", "neither"}

\* the errors of the result about a mandatory field
FieldErrors ==
    {k \in DOMAIN res.errors :
        res.errors[k] \in {Msg("Branch Code is required for backup.", 0),
                           Msg("POS Number is required for backup.", 0)}}

\* C24: when branch_code or pos_number is missing, execute_backup ends
\* FAILED with a configuration error and makes no archive, also when
\* databases were backed up or files copied before.
C24_MissingFieldFails ==
    (bk.pc = "returned" /\ FieldMissing) =>
        /\ res.status = "FAILED"
        /\ Cardinality(FieldErrors) = 1
        /\ bk.archive = NoArchive

\* a run with a missing field that had backed up a database and copied a file
C24_Witness ==
    /\ bk.pc = "returned"
    /\ FieldMissing
    /\ bk.backed_up # {}
    /\ bk.copied # {}
    /\ res.status = "FAILED"

\* C25: a missing mandatory field stops the backup before any irreversible
\* action: no shrink command and no backup command is started in that run.
C25_MissingFieldBeforeCommands ==
    (bk.pc = "returned" /\ FieldMissing) => WorkCommands = {}

\* what does hold: the fields are read after the database and appsettings
\* steps; a run with a missing field has gone through both and writes no
\* archive
MissingFieldAfterDatabaseStep ==
    (bk.pc = "returned" /\ FieldMissing) =>
        /\ bk.i = Len(bk.selected_dbs) + 1
        /\ Len(bk.backup_results) = Len(bk.selected_dbs)
        /\ bk.archive = NoArchive

\* C26: when the resolved backup folder lies under a user profile,
\* execute_backup writes to the fallback directory and the warnings of the
\* returned result tell of the substitution.
C26_FallbackFolderWarned ==
    (bk.pc = "returned" /\ bk.backup_folder = "fallback") =>
        \E k \in DOMAIN res.warnings :
            res.warnings[k].text \in {"[!] Access Warning", "[!] Switching to safe public path"}

\* what does hold: the substitution is told to the output callback, in two
\* lines, and not to the result
FallbackFolderLogged ==
    (bk.pc = "returned" /\ bk.backup_folder = "fallback") =>
        /\ \E k \in DOMAIN bk.log : bk.log[k].text = Msg("[!] Access Warning", 0)
        /\ \E k \in DOMAIN bk.log : bk.log[k].text = Msg("[!] Switching to safe public path", 0)
        /\ \A k \in DOMAIN res.warnings :
              res.warnings[k].text \notin {"[!] Access Warning", "[!] Switching to safe public path"}

\* the database step of the run is over
DatabaseStepDone == bk.pc \in {"apps", "zip", "cleanup"} \/ (bk.pc = "returned" /\ bk.fields # "unread")

\* C27: after the database step the result has exactly one DATABASE resource
\* for each selected database, the failed ones included, and for each
\* selected database either a success message or an error.
C27_ResourcePerSelectedDatabase ==
    DatabaseStepDone =>
        \A d \in DOMAIN bk.selected_dbs :
            /\ Cardinality({k \in ResourcesOf("DATABASE") :
                               res.affected_resources[k].name = bk.selected_dbs[d]}) = 1
            /\ \/ bk.selected_dbs[d] \in bk.backed_up
               \/ \E k \in DOMAIN res.errors :
                     res.errors[k] = Msg("Backup failed for", bk.selected_dbs[d])

\* what does hold: a DATABASE resource for each database backed up and none
\* for the others, for which one error is recorded
ResourcePerBackedUpDatabase ==
    DatabaseStepDone =>
        \A d \in DOMAIN bk.selected_dbs :
            IF bk.selected_dbs[d] \in bk.backed_up
            THEN /\ Cardinality({k \in ResourcesOf("DATABASE") :
                                    res.affected_resources[k].name = bk.selected_dbs[d]}) = 1
                 /\ \A k \in DOMAIN res.errors :
                       res.errors[k] # Msg("Backup failed for", bk.selected_dbs[d])
            ELSE /\ \A k \in ResourcesOf("DATABASE") :
                       res.affected_resources[k].name # bk.selected_dbs[d]
                 /\ Cardinality({k \in DOMAIN res.errors :
                                    res.errors[k] = Msg("Backup failed for", bk.selected_dbs[d])}) = 1

\* the number of warnings of the result equal to w
WarningsOf(w) == Cardinality({k \in DOMAIN res.warnings : res.warnings[k] = w})

\* C28: a failed shrink and a failed appsettings copy each add exactly one
\* warning and no error; after a failed shrink the backup command of that
\* database is still started; a run whose databases were all backed up and
\* whose archive was made ends SUCCESS without any error, whatever shrinks
\* and copies failed.
C28_BestEffortStepsOnlyWarn ==
    bk.pc # "idle" =>
        /\ \A d \in 1 .. MaxDbs :
              /\ WarningsOf(Msg("Shrink failed", d)) = IF d \in bk.shrink_failed THEN 1 ELSE 0
              /\ (d \in bk.shrink_failed /\ bk.password = "set") =>
                    \E k \in DOMAIN bk.spawned : bk.spawned[k] = Msg("BACKUP DATABASE", d)
        /\ \A a \in 1 .. MaxApps :
              WarningsOf(Msg("Failed to copy", a)) = IF a \in bk.copy_failed THEN 1 ELSE 0
        /\ \A k \in DOMAIN res.errors :
              res.errors[k].text \notin {"Shrink failed", "Failed to copy"}
        /\ (bk.pc = "returned" /\ ArchiveProduced /\ AllBackedUp) =>
              (res.status = "SUCCESS" /\ res.errors = <<>>)

\* a SUCCESS run in which a shrink failed and a copy failed
C28_Witness ==
    /\ bk.pc = "returned"
    /\ res.status = "SUCCESS"
    /\ bk.shrink_failed # {}
    /\ bk.copy_failed # {}
    /\ bk.backed_up # {}

\* C29: on every return of execute_backup taken after the temp directory was
\* made, the removal of the temp directory has been tried.
C29_TempRemovalTriedOnReturn ==
    (bk.pc = "returned" /\ bk.temp_dir # "absent") => bk.rmtree_tried

\* what does hold: the removal is tried on the returns that come after the
\* archive step, and on no other
TempRemovalAfterArchiveStepOnly ==
    bk.pc = "returned" =>
        (bk.rmtree_tried <=>
            (bk.fields = "both" /\ (bk.valid_bak_files # <<>> \/ bk.appsettings_results # <<>>)))

----------------------------------------------------------------------------
(* SpecParse: the functions of the BatchRunner that read the output of a   *)
(* query, get_backup_filelist (app/logic.py and app/logic/batch_runner.py) *)
(* and get_sql_paths, applied to the outputs the server may give.          *)

IsSpace(c) == c \in {" ", "\n"}

RECURSIVE lstrip(_)
lstrip(t) == IF t # <<>> /\ IsSpace(Head(t)) THEN lstrip(Tail(t)) ELSE t

RECURSIVE rstrip(_)
rstrip(t) ==
    IF t # <<>> /\ IsSpace(t[Len(t)]) THEN rstrip(SubSeq(t, 1, Len(t) - 1)) ELSE t

\* str.strip()
strip(t) == rstrip(lstrip(t))

\* sep in text
HasChar(t, sep) == \E i \in DOMAIN t : t[i] = sep

\* the index of the first sep in t
FirstChar(t, sep) == CHOOSE i \in DOMAIN t : t[i] = sep /\ \A k \in 1 .. i - 1 : t[k] # sep

RECURSIVE split(_, _)
\* str.split(sep) for a separator of one character
split(t, sep) ==
    IF ~HasChar(t, sep) THEN <<t>>
    ELSE <<SubSeq(t, 1, FirstChar(t, sep) - 1)>> \o split(Drop(t, FirstChar(t, sep)), sep)

RECURSIVE JoinWith(_, _)
\* sep.join(parts)
JoinWith(parts, sep) ==
    IF parts = <<>> THEN <<>>
    ELSE IF Len(parts) = 1 THEN parts[1]
    ELSE parts[1] \o <<sep>> \o JoinWith(Tail(parts), sep)

\* the fields a row of output is made of here: logical names and paths, with
\* and without blanks around them, and type codes
NameFields == {<<>>, <<"a">>, <<"b">>, <<" ", "a">>}

TypeFields == {<<"D">>, <<"L">>, <<"x">>, <<"D", " ">>}

\* the rows followed: of one, two, three and four fields
Rows ==
    {<<"a">>}
    \cup {JoinWith(<<n, <<"x">>>>, "|") : n \in NameFields}
    \cup {JoinWith(<<n, <<"x">>, ty>>, "|") : n \in NameFields, ty \in TypeFields}
    \cup {JoinWith(<<n, <<"x">>, ty, <<"y">>>>, "|") : n \in NameFields, ty \in TypeFields}

RECURSIVE RowLists(_)
RowLists(n) ==
    IF n = 0 THEN {<<>>}
    ELSE RowLists(n - 1) \cup {Append(l, r) : l \in RowLists(n - 1), r \in Rows}

\* the stdout texts followed: up to MaxRows rows, one per line
Outputs == {JoinWith(l, "\n") : l \in RowLists(MaxRows)}

\* the number of fields a row must have for get_backup_filelist to read its
\* type code: parts[2] is read when len(parts) >= 3 in logic.py, and when
\* len(parts) >= 4 in batch_runner.py
min_parts(file) == IF file = "logic.py" THEN 3 ELSE 4

RECURSIVE filelist_loop(_, _, _, _)
\* the loop of get_backup_filelist over the lines, from the names found so far
filelist_loop(lines, logical_data, logical_log, need) ==
    IF lines = <<>> THEN <<logical_data, logical_log>>
    ELSE IF HasChar(Head(lines), "|") /\ Len(split(Head(lines), "|")) >= need
    THEN IF strip(split(Head(lines), "|")[3]) = <<"D">> /\ logical_data = <<>>
         THEN filelist_loop(Tail(lines), strip(split(Head(lines), "|")[1]), logical_log, need)
         ELSE IF strip(split(Head(lines), "|")[3]) = <<"L">> /\ logical_log = <<>>
         THEN filelist_loop(Tail(lines), logical_data, strip(split(Head(lines), "|")[1]), need)
         ELSE filelist_loop(Tail(lines), logical_data, logical_log, need)
    ELSE filelist_loop(Tail(lines), logical_data, logical_log, need)

\* get_backup_filelist of the given file, from the code and the stdout sqlcmd
\* returned
get_backup_filelist(file, returncode, stdout) ==
    IF returncode # 0 THEN << <<>>, <<>> >>
    ELSE filelist_loop(split(strip(stdout), "\n"), <<>>, <<>>, min_parts(file))

RECURSIVE sql_paths_loop(_)
\* the loop of get_sql_paths over the lines: the first line with the
\* delimiter is unpacked into two names, which raises ValueError when the
\* split gives more than two parts
sql_paths_loop(lines) ==
    IF lines = <<>> THEN [raised |-> FALSE, ret |-> << <<>>, <<>> >>]
    ELSE IF HasChar(Head(lines), "|")
    THEN IF Len(split(Head(lines), "|")) = 2
         THEN [raised |-> FALSE,
               ret |-> << strip(split(Head(lines), "|")[1]),
                          strip(split(Head(lines), "|")[2]) >>]
         ELSE [raised |-> TRUE, ret |-> << <<>>, <<>> >>]
    ELSE sql_paths_loop(Tail(lines))

\* get_sql_paths, from the code and the stdout sqlcmd returned
get_sql_paths(returncode, stdout) ==
    IF returncode # 0 \/ stdout = <<>>
    THEN [raised |-> FALSE, ret |-> << <<>>, <<>> >>]
    ELSE sql_paths_loop(split(strip(stdout), "\n"))

InitParse ==
    /\ prs = [pc |-> "idle"]
    /\ cmd = NoCall
    /\ bk = NoCall
    /\ rs = NoCall
    /\ cl = NoCall
    /\ ParkedResult
    /\ ParkedHost

\* get_backup_filelist(backup_path) of either file, after its sqlcmd call
\* returned
ParseFilelist ==
    /\ prs.pc = "idle"
    /\ \E file \in {"logic.py", "batch_runner.py"}, returncode \in {0, 1}, stdout \in Outputs :
         prs' = [pc |-> "returned", fn |-> "get_backup_filelist", file |-> file,
                 returncode |-> returncode, stdout |-> stdout, raised |-> FALSE,
                 ret |-> get_backup_filelist(file, returncode, stdout)]
    /\ UNCHANGED <<resultVars, hostVars, cmd, bk, rs, cl>>

\* get_sql_paths() of logic.py, after its sqlcmd call returned
ParseSqlPaths ==
    /\ prs.pc = "idle"
    /\ \E returncode \in {0, 1}, stdout \in Outputs :
         prs' = [pc |-> "returned", fn |-> "get_sql_paths", file |-> "logic.py",
                 returncode |-> returncode, stdout |-> stdout,
                 raised |-> get_sql_paths(returncode, stdout).raised,
                 ret |-> get_sql_paths(returncode, stdout).ret]
    /\ UNCHANGED <<resultVars, hostVars, cmd, bk, rs, cl>>

NextParse ==
    \/ ParseFilelist
    \/ ParseSqlPaths

SpecParse == InitParse /\ [][NextParse]_vars

----------------------------------------------------------------------------
(* Claims about the functions that read query output, checked under        *)
(* SpecParse *)

\* the lines of the stdout last parsed
ParsedLines == split(strip(prs.stdout), "\n")

\* the rows of at least n fields whose third field is the type code, and,
\* with named, whose first field is not empty
TypedRows(code, n, named) ==
    {i \in DOMAIN ParsedLines :
        /\ Len(split(ParsedLines[i], "|")) >= n
        /\ strip(split(ParsedLines[i], "|")[3]) = <<code>>
        /\ named => strip(split(ParsedLines[i], "|")[1]) # <<>>}

\* the first field of the first of these rows, the empty text if there is none
FirstName(code, n, named) ==
    IF TypedRows(code, n, named) = {} THEN <<>>
    ELSE strip(split(ParsedLines[CHOOSE i \in TypedRows(code, n, named) :
                                    \A k \in TypedRows(code, n, named) : i <= k], "|")[1])

\* C13 as claimed: in both files get_backup_filelist returns as data the first
\* field of the first row of at least 3 fields whose third field is D, and as
\* log the first field of the first such row whose third field is L; later
\* D and L rows and rows of fewer than 3 fields are skipped.
C13_FirstTypedRowOfThreeFields ==
    (prs.pc = "returned" /\ prs.fn = "get_backup_filelist" /\ prs.returncode = 0) =>
        prs.ret = <<FirstName("D", 3, FALSE), FirstName("L", 3, FALSE)>>

\* what does hold: each file takes the first row that has the type code, a
\* first field that is not empty, and at least 3 fields in logic.py, at least
\* 4 in batch_runner.py; a failed command gives two empty names
FilelistFirstNamedRow ==
    (prs.pc = "returned" /\ prs.fn = "get_backup_filelist") =>
        IF prs.returncode # 0
        THEN prs.ret = << <<>>, <<>> >>
        ELSE prs.ret = <<FirstName("D", min_parts(prs.file), TRUE),
                         FirstName("L", min_parts(prs.file), TRUE)>>

\* the first line of the stdout last parsed that holds the delimiter
DelimitedRows == {i \in DOMAIN ParsedLines : HasChar(ParsedLines[i], "|")}

FirstDelimited ==
    split(ParsedLines[CHOOSE i \in DelimitedRows : \A k \in DelimitedRows : i <= k], "|")

\* C14 as claimed: get_sql_paths never raises; it returns the trimmed first
\* and second fields of the first row that holds the delimiter, whatever the
\* number of fields of that row, and two empty texts when the command failed
\* or no row holds the delimiter.
C14_FirstDelimitedRow ==
    (prs.pc = "returned" /\ prs.fn = "get_sql_paths") =>
        /\ ~prs.raised
        /\ prs.ret = IF prs.returncode # 0 \/ DelimitedRows = {}
                     THEN << <<>>, <<>> >>
                     ELSE <<strip(FirstDelimited[1]), strip(FirstDelimited[2])>>

\* what does hold: the claim for a first delimited row of exactly two fields;
\* a first delimited row of more fields makes get_sql_paths raise
SqlPathsTwoFields ==
    (prs.pc = "returned" /\ prs.fn = "get_sql_paths") =>
        IF prs.returncode # 0 \/ DelimitedRows = {}
        THEN ~prs.raised /\ prs.ret = << <<>>, <<>> >>
        ELSE IF Len(FirstDelimited) = 2
        THEN ~prs.raised /\ prs.ret = <<strip(FirstDelimited[1]), strip(FirstDelimited[2])>>
        ELSE prs.raised

----------------------------------------------------------------------------
(* SpecSql: the BatchRunner methods that write a query from their          *)
(* arguments and send it through sqlcmd: execute_restore as a step machine *)
(* (result in res, locals and effects in rs), and shrink_database,         *)
(* backup_database and drop_database called on their own.  A query is a    *)
(* text whose fixed parts are single elements and whose embedded values    *)
(* are spelled character by character.                                     *)

\* the database names followed: a plain one and one with a single quote
RestoreNames == {<<"d">>, <<"o", "'", "b">>}

\* the backup file paths followed
BackupFiles == {<<"f">>, <<"f", "'">>}

\* the mdf_path and ldf_path arguments: not given (None), the empty string,
\* and a directory with a single quote in it, ending with the separator
DirArguments ==
    {[given |-> FALSE, value |-> <<>>],
     [given |-> TRUE, value |-> <<>>],
     [given |-> TRUE, value |-> <<"m", "'", "\\">>]}

\* the stdout texts followed for the query of get_sql_paths
PathOutputs == {<<>>, <<"x", "|", "y">>, <<"x", "|", "y", "|", "z">>}

\* the stdout texts followed for RESTORE FILELISTONLY
FilelistOutputs ==
    {<<>>,
     <<"a", "|", "x", "|", "D">>,
     <<"a", "|", "x", "|", "D", "\n", "b", "|", "y", "|", "L">>,
     <<"a", "'", "|", "x", "|", "D", "\n", "b", "|", "y", "|", "L">>}

\* value.replace("'", "''")
escape_quotes(t) == replace(t, <<"'">>, <<"'", "'">>)

\* the query of get_sql_paths: a fixed text
sql_paths_query == <<"SET NOCOUNT ON; ... SELECT @d AS DataPath, @l AS LogPath;">>

\* the query of get_backup_filelist
filelist_query(backup_path) ==
    <<"SET NOCOUNT ON; RESTORE FILELISTONLY FROM DISK = N'">>
    \o escape_quotes(backup_path) \o <<"';">>

\* the drop_query of execute_restore
drop_query(target_db) ==
    <<"IF DB_ID(N'">> \o target_db
    \o <<"') IS NOT NULL BEGIN PRINT 'Dropping existing [">> \o target_db
    \o <<"]...'; ALTER DATABASE [">> \o target_db
    \o <<"] SET SINGLE_USER WITH ROLLBACK IMMEDIATE; DROP DATABASE [">> \o target_db
    \o <<"]; END;">>

\* the restore_query of execute_restore, from the values the f-string embeds
restore_query(target_db, escaped_backup, logical_data, escaped_mdf, logical_log, escaped_ldf) ==
    <<"PRINT 'RESTORE starting...'; RESTORE DATABASE [">> \o target_db
    \o <<"] FROM DISK = N'">> \o escaped_backup
    \o <<"' WITH MOVE N'">> \o logical_data
    \o <<"' TO N'">> \o escaped_mdf
    \o <<"', MOVE N'">> \o logical_log
    \o <<"'  TO N'">> \o escaped_ldf
    \o <<"', REPLACE, RECOVERY, STATS = 5; PRINT 'RESTORE complete.';">>

\* the query of shrink_database
shrink_query(database_name) ==
    <<"DBCC SHRINKDATABASE (N'">> \o database_name \o <<"', TRUNCATEONLY)">>

\* the query of backup_database
backup_query(database_name, backup_path) ==
    <<"BACKUP DATABASE [">> \o database_name \o <<"] TO DISK = '">> \o backup_path
    \o <<"' WITH COMPRESSION">>

\* the query of drop_database
drop_database_query(database_name) ==
    <<"DROP DATABASE IF EXISTS [">> \o database_name \o <<"]">>

\* the directory with the separator added when it does not end with it
with_separator(dir) ==
    IF dir # <<>> /\ dir[Len(dir)] = "\\" THEN dir ELSE dir \o <<"\\">>

\* mdf_path if mdf_path else default_data
path_or_default(arg, default) == IF arg.given /\ arg.value # <<>> THEN arg.value ELSE default

\* a check of the backup file that never finds it missing
file_missing_never(r) == FALSE

\* not Path(backup_file).exists()
file_missing(r) == ~r.exists

\* no call made yet.  exists tells whether backup_file is on disk.
\* paths_read, default_data and default_log are history fields: whether
\* get_sql_paths returned and the two directories it gave.
\* names_read, names, drop_code, restore_code, queries and spawned are
\* history fields: whether get_backup_filelist was called and what it
\* returned, the return codes of the drop and of the restore (-1 before), the
\* queries given to
\* sqlcmd, each with the argument values embedded after escape_quotes
\* (escaped) and as they are (raw), and the number of sqlcmd processes
\* started.
NewSql ==
    [pc |-> "idle", fn |-> "none", password |-> "unread",
     backup_file |-> <<>>, exists |-> FALSE, target_db |-> <<>>,
     mdf_path |-> [given |-> FALSE, value |-> <<>>],
     ldf_path |-> [given |-> FALSE, value |-> <<>>],
     paths_read |-> FALSE, default_data |-> <<>>, default_log |-> <<>>,
     final_mdf_dir |-> <<>>, final_ldf_dir |-> <<>>,
     logical_data |-> <<>>, logical_log |-> <<>>,
     names_read |-> FALSE, names |-> << <<>>, <<>> >>,
     drop_code |-> -1, restore_code |-> -1,
     queries |-> <<>>, spawned |-> 0, log |-> <<>>, success |-> FALSE]

InitSql ==
    /\ rs = NewSql
    /\ cmd = NoCall
    /\ bk = NoCall
    /\ prs = NoCall
    /\ cl = NoCall
    /\ ParkedResult
    /\ ParkedHost

\* self.sqlcmd(query): the query is handed over, and a process is started
\* for it when a password is configured
Sent(r, query, escaped, raw) ==
    [r EXCEPT !.queries = Append(@, [text |-> query, escaped |-> escaped, raw |-> raw]),
              !.spawned = IF r.password = "set" THEN @ + 1 ELSE @]

\* what sqlcmd may return: without a password code 1 and no output
SqlcmdReturns(r, returncode, stdout) ==
    r.password # "set" => (returncode = 1 /\ stdout = <<>>)

RsLogged(r, text, is_error) ==
    [r EXCEPT !.log = Append(@, Line("log_output", Msg(text, 0), is_error))]

\* lines 638-644: the result is created and marked RUNNING, the start lines
\* are logged and the first message added
RsCall ==
    /\ rs.pc = "idle"
    /\ \E backup_file \in BackupFiles, exists \in BOOLEAN, target_db \in RestoreNames,
          mdf_path \in DirArguments, ldf_path \in DirArguments,
          password \in PasswordSettings :
         rs' = [RsLogged(RsLogged(rs, "Starting restore operation for", FALSE),
                         "Backup file", FALSE)
                  EXCEPT !.pc = "check", !.fn = "execute_restore",
                         !.password = password,
                         !.backup_file = backup_file, !.exists = exists,
                         !.target_db = target_db,
                         !.mdf_path = mdf_path, !.ldf_path = ldf_path]
    /\ res' = add_message(BeginPipeline("restore", now), Msg("Restoring", 0))
    /\ UNCHANGED <<now, hostVars, cmd, bk, prs, cl>>

\* lines 647-650: the backup file is looked up
RsCheckFile ==
    /\ rs.pc = "check"
    /\ IF file_missing(rs)
       THEN /\ res' = AbortFailed(res, "Backup file not found", now)
            /\ rs' = [rs EXCEPT !.pc = "returned"]
       ELSE /\ rs' = [rs EXCEPT !.pc = "paths"]
            /\ res' = res
    /\ UNCHANGED <<now, hostVars, cmd, bk, prs, cl>>

\* lines 653-666: get_sql_paths, outside any try, and the target directories
RsSqlPaths ==
    /\ rs.pc = "paths"
    /\ \E returncode \in {0, 1}, stdout \in PathOutputs :
         /\ SqlcmdReturns(rs, returncode, stdout)
         /\ LET r1 == Sent(rs, sql_paths_query, <<>>, <<>>)
                p == get_sql_paths(returncode, stdout)
            IN IF p.raised
               THEN rs' = [r1 EXCEPT !.pc = "raised"]
               ELSE rs' = [RsLogged(RsLogged(r1, "Target MDF Path", FALSE),
                                    "Target LDF Path", FALSE)
                             EXCEPT !.pc = "filelist",
                                    !.paths_read = TRUE,
                                    !.default_data = p.ret[1],
                                    !.default_log = p.ret[2],
                                    !.final_mdf_dir =
                                        with_separator(path_or_default(rs.mdf_path, p.ret[1])),
                                    !.final_ldf_dir =
                                        with_separator(path_or_default(rs.ldf_path, p.ret[2]))]
    /\ UNCHANGED <<resultVars, hostVars, cmd, bk, prs, cl>>

\* a check of the logical names that looks at the data name alone
names_missing_data_only(names) == names[1] = <<>>

\* line 670: not logical_data or not logical_log
names_missing(names) == names[1] = <<>> \/ names[2] = <<>>

\* lines 669-675: get_backup_filelist of logic.py and the check of its names
RsFilelist ==
    /\ rs.pc = "filelist"
    /\ \E returncode \in {0, 1}, stdout \in FilelistOutputs :
         /\ SqlcmdReturns(rs, returncode, stdout)
         /\ LET names == get_backup_filelist("logic.py", returncode, stdout)
                r1 == [Sent(rs, filelist_query(rs.backup_file), <<rs.backup_file>>, <<>>)
                         EXCEPT !.names_read = TRUE, !.names = names]
            IN IF names_missing(names)
               THEN /\ rs' = [RsLogged(r1, "[ERROR] Could not read logical files from backup", TRUE)
                                EXCEPT !.pc = "returned"]
                    /\ res' = AbortFailed(res, "Could not read logical files from backup", now)
               ELSE /\ rs' = [r1 EXCEPT !.pc = "drop",
                                        !.logical_data = names[1],
                                        !.logical_log = names[2]]
                    /\ res' = res
    /\ UNCHANGED <<now, hostVars, cmd, bk, prs, cl>>

\* lines 678-679
target_mdf(r) == r.final_mdf_dir \o r.target_db \o <<".mdf">>

target_ldf(r) == r.final_ldf_dir \o r.target_db \o <<"_log.ldf">>

\* lines 687-700: the database of the target name is dropped, best effort
RsDrop ==
    /\ rs.pc = "drop"
    /\ \E returncode \in {0, 1} :
         /\ SqlcmdReturns(rs, returncode, <<>>)
         /\ LET r1 == Sent(rs, drop_query(rs.target_db), <<>>,
                           <<rs.target_db, rs.target_db, rs.target_db, rs.target_db>>)
            IN IF returncode # 0
               THEN /\ rs' = [RsLogged(r1, "[WARN] Failed to drop existing database", FALSE)
                                EXCEPT !.pc = "restore", !.drop_code = returncode]
                    /\ res' = add_warning(res, Msg("Failed to drop existing database (may not exist)", 0))
               ELSE /\ rs' = [r1 EXCEPT !.pc = "restore", !.drop_code = returncode]
                    /\ res' = res
    /\ UNCHANGED <<now, hostVars, cmd, bk, prs, cl>>

\* a restore that ends SUCCESS whatever the command returned
restore_succeeded_always(returncode) == TRUE

\* line 716: if returncode == 0
restore_succeeded(returncode) == returncode = 0

\* lines 682-684 and 703-744: the RESTORE query is written and sent
RsRestore ==
    /\ rs.pc = "restore"
    /\ \E returncode \in {0, 1} :
         /\ SqlcmdReturns(rs, returncode, <<>>)
         /\ LET r1 == Sent(RsLogged(rs, "Restoring to", FALSE),
                           restore_query(rs.target_db, escape_quotes(rs.backup_file),
                                         rs.logical_data, escape_quotes(target_mdf(rs)),
                                         rs.logical_log, escape_quotes(target_ldf(rs))),
                           <<rs.backup_file, target_mdf(rs), target_ldf(rs)>>,
                           <<rs.target_db, rs.logical_data, rs.logical_log>>)
            IN IF restore_succeeded(returncode)
               THEN /\ rs' = [RsLogged(RsLogged(RsLogged(RsLogged(r1, "===== SUCCESS =====", FALSE),
                                                         "DB", FALSE), "MDF", FALSE), "LDF", FALSE)
                                EXCEPT !.pc = "returned", !.success = TRUE,
                                       !.restore_code = returncode]
                    /\ res' = finalize(
                                 add_resource(add_message(res, Msg("Database restore successful", 0)),
                                              [type |-> "DATABASE", name |-> rs.target_db,
                                               path |-> target_mdf(rs)]),
                                 "SUCCESS", now)
               ELSE /\ rs' = [RsLogged(r1, "[ERROR] Restore failed", TRUE)
                                EXCEPT !.pc = "returned", !.restore_code = returncode]
                    /\ res' = AbortFailed(res, "Database restore failed", now)
    /\ UNCHANGED <<now, hostVars, cmd, bk, prs, cl>>

\* shrink_database(database_name) called on its own
ShrinkDatabase ==
    /\ rs.pc = "idle"
    /\ \E database_name \in RestoreNames, password \in PasswordSettings, returncode \in {0, 1} :
         /\ SqlcmdReturns([rs EXCEPT !.password = password], returncode, <<>>)
         /\ rs' = [Sent([rs EXCEPT !.password = password], shrink_query(database_name),
                        <<>>, <<database_name>>)
                     EXCEPT !.pc = "returned", !.fn = "shrink_database",
                            !.success = (returncode = 0)]
    /\ UNCHANGED <<resultVars, hostVars, cmd, bk, prs, cl>>

\* backup_database(database_name, backup_path) called on its own
BackupDatabase ==
    /\ rs.pc = "idle"
    /\ \E database_name \in RestoreNames, backup_path \in BackupFiles,
          password \in PasswordSettings, returncode \in {0, 1} :
         /\ SqlcmdReturns([rs EXCEPT !.password = password], returncode, <<>>)
         /\ rs' = [Sent([rs EXCEPT !.password = password],
                        backup_query(database_name, backup_path),
                        <<>>, <<database_name, backup_path>>)
                     EXCEPT !.pc = "returned", !.fn = "backup_database",
                            !.success = (returncode = 0)]
    /\ UNCHANGED <<resultVars, hostVars, cmd, bk, prs, cl>>

\* drop_database(database_name) called on its own
DropDatabase ==
    /\ rs.pc = "idle"
    /\ \E database_name \in RestoreNames, password \in PasswordSettings, returncode \in {0, 1} :
         /\ SqlcmdReturns([rs EXCEPT !.password = password], returncode, <<>>)
         /\ rs' = [Sent(RsLogged([rs EXCEPT !.password = password], "[*] Dropping database", FALSE),
                        drop_database_query(database_name), <<>>, <<database_name>>)
                     EXCEPT !.pc = "returned", !.fn = "drop_database",
                            !.success = (returncode = 0)]
    /\ UNCHANGED <<resultVars, hostVars, cmd, bk, prs, cl>>

NextSql ==
    \/ RsCall
    \/ RsCheckFile
    \/ RsSqlPaths
    \/ RsFilelist
    \/ RsDrop
    \/ RsRestore
    \/ ShrinkDatabase
    \/ BackupDatabase
    \/ DropDatabase

SpecSql == InitSql /\ [][NextSql]_vars

\* C19: execute_restore called with a backup path that does not exist
\* returns FAILED with exactly one error, having given no query to sqlcmd
\* and started no process.
C19_MissingBackupFileFailsAtOnce ==
    (rs.pc = "returned" /\ rs.fn = "execute_restore" /\ ~rs.exists) =>
        /\ res.status = "FAILED"
        /\ Len(res.errors) = 1
        /\ rs.queries = <<>>
        /\ rs.spawned = 0

\* a restore of a missing file, with a password configured, that returned
C19_Witness ==
    /\ rs.pc = "returned"
    /\ rs.fn = "execute_restore"
    /\ ~rs.exists
    /\ rs.password = "set"
    /\ res.status = "FAILED"
    /\ res.errors = <<Msg("Backup file not found", 0)>>

\* C22: execute_restore (like execute_backup and execute_cleanup) never
\* raises to its caller: an exception arising inside the pipeline body, here
\* from tool output that cannot be parsed, becomes a returned result with
\* status FAILED.
C22_PipelineNeverRaises ==
    (rs.fn = "execute_restore" /\ rs.pc \in {"returned", "raised"}) =>
        /\ rs.pc = "returned"
        /\ res.status \in {"SUCCESS", "FAILED"}

\* what does hold: a run that returns is finalized, SUCCESS or FAILED; a run
\* whose get_sql_paths call raises ends there, its result left RUNNING
RestoreReturnsFinalized ==
    /\ (rs.fn = "execute_restore" /\ rs.pc = "returned") =>
           (res.status \in {"SUCCESS", "FAILED"} /\ res.nfinal = 1)
    /\ rs.pc = "raised" => (res.status = "RUNNING" /\ res.nfinal = 0)

\* the queries given to sqlcmd that drop or restore the target database
DestructiveQueries ==
    {k \in DOMAIN rs.queries :
        Head(rs.queries[k].text) \in
            {"IF DB_ID(N'", "PRINT 'RESTORE starting...'; RESTORE DATABASE ["}}

\* C30: in execute_restore the drop and the restore never run without both
\* logical names: when the data name or the log name could not be read from
\* the backup, the run ends FAILED and neither query is given to sqlcmd.
C30_NoDestructiveStepWithoutNames ==
    rs.fn = "execute_restore" =>
        /\ DestructiveQueries # {} =>
              (rs.names_read /\ rs.names[1] # <<>> /\ rs.names[2] # <<>>)
        /\ (rs.pc = "returned" /\ rs.names_read
                /\ (rs.names[1] = <<>> \/ rs.names[2] = <<>>)) =>
              (res.status = "FAILED" /\ DestructiveQueries = {})

\* a restore that found the data name and no log name, and returned
C30_Witness ==
    /\ rs.pc = "returned"
    /\ rs.fn = "execute_restore"
    /\ rs.names_read
    /\ rs.names[1] # <<>>
    /\ rs.names[2] = <<>>
    /\ res.status = "FAILED"
    /\ Len(rs.queries) = 2

\* a directory of the restore has neither an override nor a default: the
\* argument is None or empty and get_sql_paths gave the empty string for it
NoDirectoryKnown ==
    \/ path_or_default(rs.mdf_path, <<>>) = <<>> /\ rs.default_data = <<>>
    \/ path_or_default(rs.ldf_path, <<>>) = <<>> /\ rs.default_log = <<>>

\* C32: a default data or log directory that cannot be determined is
\* tolerated only with an override: when get_sql_paths gave no directory and
\* no override was passed for it, execute_restore ends FAILED and sends
\* neither the drop nor the restore.
C32_UndiscoverableDefaultIsFatal ==
    (rs.fn = "execute_restore" /\ rs.pc = "returned" /\ rs.paths_read
        /\ NoDirectoryKnown) =>
        /\ res.status = "FAILED"
        /\ DestructiveQueries = {}

\* what does hold: with neither an override nor a default the target
\* directory is the separator alone, and the run goes on as with any other
\* directory, its status coming from the logical names and the restore
RootDirectoryWhenNoneKnown ==
    (rs.fn = "execute_restore" /\ rs.pc = "returned" /\ rs.paths_read) =>
        /\ (path_or_default(rs.mdf_path, <<>>) = <<>> /\ rs.default_data = <<>>)
              => rs.final_mdf_dir = <<"\\">>
        /\ (path_or_default(rs.ldf_path, <<>>) = <<>> /\ rs.default_log = <<>>)
              => rs.final_ldf_dir = <<"\\">>
        /\ res.status = IF names_missing(rs.names) \/ rs.restore_code # 0
                        THEN "FAILED" ELSE "SUCCESS"

\* the restore queries given to sqlcmd
RestoreQueries ==
    {k \in DOMAIN rs.queries :
        Head(rs.queries[k].text) = "PRINT 'RESTORE starting...'; RESTORE DATABASE ["}

\* C31: once the logical names are resolved, the status of a restore comes
\* from the RESTORE command alone: SUCCESS with exactly one DATABASE resource
\* when it returns 0, FAILED otherwise; a drop that fails adds exactly one
\* warning and no error, and the restore query is still sent after it.
C31_StatusFromRestoreCommand ==
    (rs.fn = "execute_restore" /\ rs.pc = "returned" /\ rs.names_read
        /\ ~names_missing(rs.names)) =>
        /\ Cardinality(RestoreQueries) = 1
        /\ IF rs.restore_code = 0
           THEN /\ res.status = "SUCCESS"
                /\ res.errors = <<>>
                /\ Len(res.affected_resources) = 1
                /\ res.affected_resources[1].type = "DATABASE"
           ELSE /\ res.status = "FAILED"
                /\ res.errors = <<Msg("Database restore failed", 0)>>
                /\ res.affected_resources = <<>>
        /\ Len(res.warnings) = IF rs.drop_code = 0 THEN 0 ELSE 1

\* a restore whose drop failed and whose RESTORE command returned 0
C31_Witness ==
    /\ rs.fn = "execute_restore"
    /\ rs.pc = "returned"
    /\ rs.drop_code = 1
    /\ rs.restore_code = 0
    /\ res.status = "SUCCESS"
    /\ Len(res.warnings) = 1

RECURSIVE QuoteCount(_)
\* the number of single quote characters of a text
QuoteCount(t) ==
    IF t = <<>> THEN 0
    ELSE (IF Head(t) = "'" THEN 1 ELSE 0) + QuoteCount(Tail(t))

RECURSIVE QuotesOf(_)
\* the number of single quote characters of a list of texts
QuotesOf(values) ==
    IF values = <<>> THEN 0 ELSE QuoteCount(Head(values)) + QuotesOf(Tail(values))

\* C20: every argument value embedded into a generated query (target
\* database name, backup path, physical paths, logical file names, database
\* names of shrink, backup and drop) has each of its single quotes doubled:
\* the query holds two quote characters for each one of the values.
C20_EveryEmbeddedQuoteDoubled ==
    \A k \in DOMAIN rs.queries :
        QuoteCount(rs.queries[k].text) =
            2 * (QuotesOf(rs.queries[k].escaped) + QuotesOf(rs.queries[k].raw))

\* what does hold: the backup path of RESTORE FILELISTONLY and of RESTORE and
\* the two physical paths have their quotes doubled; the database names, the
\* logical names and the backup path of BACKUP DATABASE are embedded as they
\* are
OnlyRestorePathsDoubled ==
    \A k \in DOMAIN rs.queries :
        QuoteCount(rs.queries[k].text) =
            2 * QuotesOf(rs.queries[k].escaped) + QuotesOf(rs.queries[k].raw)

----------------------------------------------------------------------------
(* SpecCleanup: execute_cleanup of app/logic.py as a step machine, result  *)
(* in res, locals and effects in cl.  The services, databases and folders  *)
(* of the configuration are numbered.                                      *)

\* the services, databases and folders settings: lists of 0 .. Max names
CleanupSettings ==
    [services : 0 .. MaxServices, databases : 0 .. MaxDbs, folders : 0 .. MaxFolders]

\* what the registry pass meets: the script file is missing, reading it
\* raises, or powershell ran and gave a return code and a stderr text (none,
\* one with 'ErrorAction' in it, one without)
RegistryOutcomes ==
    {[kind |-> "missing", returncode |-> 1, stderr |-> "none"],
     [kind |-> "crashed", returncode |-> 1, stderr |-> "none"]}
    \cup [kind : {"ran"}, returncode : {0, 1}, stderr : {"none", "benign", "other"}]

\* lines 470-514, what cleanup_registry returns: success, and the number of
\* texts in its errors list
cleanup_registry(o) ==
    IF o.kind \in {"missing", "crashed"}
    THEN [success |-> FALSE, errors |-> 1]
    ELSE [success |-> o.returncode = 0,
          errors |-> IF o.stderr = "other" THEN 1 ELSE 0]

\* a loop turn that deletes a service only when it could be stopped
service_steps_stopped_only(i, stopped, deleted) ==
    IF stopped
    THEN <<[op |-> "stop", item |-> i, ok |-> stopped],
           [op |-> "delete_service", item |-> i, ok |-> deleted]>>
    ELSE <<[op |-> "stop", item |-> i, ok |-> stopped]>>

\* lines 530-545: the two helpers called for a service, in their order
service_steps(i, stopped, deleted) ==
    <<[op |-> "stop", item |-> i, ok |-> stopped],
      [op |-> "delete_service", item |-> i, ok |-> deleted]>>

\* no call made yet.  attempted, steps and registry are history fields: the
\* number of sub-operations tried so far (service stops, service deletes,
\* database drops, folder deletes, the registry pass), the helpers called so
\* far in their order with what each gave, and what the registry pass met.
NewCleanup ==
    [pc |-> "idle", services |-> 0, databases |-> 0, folders |-> 0, i |-> 1,
     service_results |-> <<>>, db_results |-> <<>>, folder_results |-> <<>>,
     attempted |-> 0, steps |-> <<>>,
     registry |-> [kind |-> "none", returncode |-> 0, stderr |-> "none"],
     log |-> <<>>]

InitCleanup ==
    /\ cl = NewCleanup
    /\ cmd = NoCall
    /\ bk = NoCall
    /\ prs = NoCall
    /\ rs = NoCall
    /\ ParkedResult
    /\ ParkedHost

ClLogged(c, text, about, is_error) ==
    [c EXCEPT !.log = Append(@, Line("log_output", Msg(text, about), is_error))]

\* lines 518-526: the result is created and marked RUNNING, the settings read
ClCall ==
    /\ cl.pc = "idle"
    /\ \E settings \in CleanupSettings :
         cl' = [ClLogged(cl, "Starting cleanup operation...", 0, FALSE) EXCEPT
                  !.pc = "services",
                  !.services = settings.services,
                  !.databases = settings.databases,
                  !.folders = settings.folders]
    /\ res' = add_message(BeginPipeline("cleanup", now), Msg("Cleanup operation started", 0))
    /\ UNCHANGED <<now, hostVars, cmd, bk, prs, rs>>

\* lines 528-557: one turn of the loop over the services: the service is
\* stopped, then deleted
ClService ==
    /\ cl.pc = "services"
    /\ cl.i <= cl.services
    /\ \E stopped \in BOOLEAN, deleted \in BOOLEAN :
         LET r1 == add_resource(res, [type |-> "SERVICE", name |-> cl.i, path |-> "stop"])
             r2 == IF stopped
                   THEN add_message(r1, Msg("Service stopped", cl.i))
                   ELSE add_warning(r1, Msg("Failed to stop service", cl.i))
             r3 == add_resource(r2, [type |-> "SERVICE", name |-> cl.i, path |-> "delete"])
         IN /\ res' = IF deleted
                      THEN add_message(r3, Msg("Service deleted", cl.i))
                      ELSE add_error(r3, Msg("Failed to delete service", cl.i))
            /\ cl' = [ClLogged(ClLogged(cl, "[*] Stopping service", cl.i, FALSE),
                               "[*] Deleting service", cl.i, FALSE)
                        EXCEPT !.i = @ + 1,
                               !.service_results = Append(@, deleted),
                               !.steps = @ \o service_steps(cl.i, stopped, deleted),
                               !.attempted = @ + 2]
    /\ UNCHANGED <<now, hostVars, cmd, bk, prs, rs>>

\* line 560: the loop over the services is over
ClServicesDone ==
    /\ cl.pc = "services"
    /\ cl.i > cl.services
    /\ cl' = [cl EXCEPT !.pc = "databases", !.i = 1]
    /\ UNCHANGED <<resultVars, hostVars, cmd, bk, prs, rs>>

\* lines 563-577: one turn of the loop over the databases
ClDatabase ==
    /\ cl.pc = "databases"
    /\ cl.i <= cl.databases
    /\ \E success \in BOOLEAN :
         LET r1 == add_resource(res, [type |-> "DATABASE", name |-> cl.i, path |-> "drop"])
         IN /\ res' = IF success
                      THEN add_message(r1, Msg("Database dropped", cl.i))
                      ELSE add_error(r1, Msg("Failed to drop database", cl.i))
            /\ cl' = [ClLogged(cl, "[*] Dropping database", cl.i, FALSE)
                        EXCEPT !.i = @ + 1,
                               !.db_results = Append(@, success),
                               !.steps = Append(@, [op |-> "drop", item |-> cl.i,
                                                    ok |-> success]),
                               !.attempted = @ + 1]
    /\ UNCHANGED <<now, hostVars, cmd, bk, prs, rs>>

\* line 580: the loop over the databases is over
ClDatabasesDone ==
    /\ cl.pc = "databases"
    /\ cl.i > cl.databases
    /\ cl' = [cl EXCEPT !.pc = "folders", !.i = 1]
    /\ UNCHANGED <<resultVars, hostVars, cmd, bk, prs, rs>>

\* lines 583-597: one turn of the loop over the folders; a folder that is not
\* there counts as deleted
ClFolder ==
    /\ cl.pc = "folders"
    /\ cl.i <= cl.folders
    /\ \E success \in BOOLEAN :
         LET r1 == add_resource(res, [type |-> "FOLDER", name |-> cl.i, path |-> "delete"])
         IN /\ res' = IF success
                      THEN add_message(r1, Msg("Folder deleted", cl.i))
                      ELSE add_warning(r1, Msg("Failed to delete folder", cl.i))
            /\ cl' = [(IF success THEN cl
                       ELSE ClLogged(cl, "Failed to delete folder", cl.i, TRUE))
                        EXCEPT !.i = @ + 1,
                               !.folder_results = Append(@, success),
                               !.steps = Append(@, [op |-> "delete_folder", item |-> cl.i,
                                                    ok |-> success]),
                               !.attempted = @ + 1]
    /\ UNCHANGED <<now, hostVars, cmd, bk, prs, rs>>

\* lines 617-619: len(service_results) + len(db_results) + len(folder_results)
steps_counted(c) == Len(c.service_results) + Len(c.db_results) + Len(c.folder_results)

\* a cleanup that ends SUCCESS whatever was recorded
cleanup_status_always_success(r, c) == "SUCCESS"

\* lines 614-624: the status execute_cleanup finalizes with
cleanup_status(r, c) ==
    IF r.errors = <<>> THEN "SUCCESS"
    ELSE IF Len(r.errors) < steps_counted(c) THEN "PARTIAL_SUCCESS"
    ELSE "FAILED"

\* lines 600-626: the loop over the folders is over; the registry pass, then
\* the result is finalized and returned
ClRegistry ==
    /\ cl.pc = "folders"
    /\ cl.i > cl.folders
    /\ \E outcome \in RegistryOutcomes :
         LET registry == cleanup_registry(outcome)
             r1 == add_resource(res, [type |-> "REGISTRY_KEY", name |-> 0, path |-> "cleanup"])
             r2 == IF registry.success
                   THEN add_message(r1, Msg("Registry cleanup completed", 0))
                   ELSE IF registry.errors = 1
                   THEN add_error(r1, Msg("Registry error", 0))
                   ELSE r1
             c1 == [ClLogged(cl, "[*] Cleaning registry uninstall entries and RMS_ folders...",
                             0, FALSE)
                      EXCEPT !.attempted = @ + 1,
                             !.registry = outcome,
                             !.steps = Append(@, [op |-> "registry", item |-> 0,
                                                  ok |-> registry.success])]
         IN /\ res' = finalize(r2, cleanup_status(r2, c1), now)
            /\ cl' = [ClLogged(c1, cleanup_status(r2, c1), 0, FALSE) EXCEPT !.pc = "returned"]
    /\ UNCHANGED <<now, hostVars, cmd, bk, prs, rs>>

\* the clock advances while the call is under way
ClTick ==
    /\ cl.pc \notin {"none", "idle", "returned"}
    /\ now < MaxClock
    /\ now' = now + 1
    /\ UNCHANGED <<res, hostVars, pipeVars>>

NextCleanup ==
    \/ ClCall
    \/ ClService
    \/ ClServicesDone
    \/ ClDatabase
    \/ ClDatabasesDone
    \/ ClFolder
    \/ ClRegistry
    \/ ClTick

SpecCleanup == InitCleanup /\ [][NextCleanup]_vars

\* C21: with N the number of sub-operations tried (every service stop,
\* every service delete, every database drop, every folder delete and the
\* registry pass) and E the number of errors recorded, execute_cleanup ends
\* SUCCESS for E = 0, PARTIAL_SUCCESS for 0 < E < N and FAILED for E = N.
C21_StatusFromErrorsAndAttempts ==
    cl.pc = "returned" =>
        /\ Len(res.errors) = 0 => res.status = "SUCCESS"
        /\ (0 < Len(res.errors) /\ Len(res.errors) < cl.attempted) =>
               res.status = "PARTIAL_SUCCESS"
        /\ Len(res.errors) = cl.attempted => res.status = "FAILED"

\* what does hold: the errors are compared with the number of services plus
\* databases plus folders; the stops and the registry pass are not counted
CleanupStatusFromCountedSteps ==
    cl.pc = "returned" =>
        /\ Len(res.errors) = 0 => res.status = "SUCCESS"
        /\ (0 < Len(res.errors) /\ Len(res.errors) < cl.services + cl.databases + cl.folders) =>
               res.status = "PARTIAL_SUCCESS"
        /\ (0 < Len(res.errors) /\ Len(res.errors) >= cl.services + cl.databases + cl.folders) =>
               res.status = "FAILED"

\* the helpers execute_cleanup is to call for the settings of c, in order:
\* stop and delete for each service, drop for each database, delete for each
\* folder, the registry pass
PlannedSteps(c) ==
    [k \in 1 .. 2 * c.services |->
        [op |-> IF k % 2 = 1 THEN "stop" ELSE "delete_service", item |-> (k + 1) \div 2]]
    \o [k \in 1 .. c.databases |-> [op |-> "drop", item |-> k]]
    \o [k \in 1 .. c.folders |-> [op |-> "delete_folder", item |-> k]]
    \o <<[op |-> "registry", item |-> 0]>>

\* the helpers called so far, without what they gave
CalledSteps(c) == [k \in DOMAIN c.steps |-> [op |-> c.steps[k].op, item |-> c.steps[k].item]]

\* C33: execute_cleanup never stops early: whatever the earlier helpers gave,
\* the helpers called so far are the first ones of the plan (stop then delete
\* for each service, a drop for each database, a delete for each folder, one
\* registry pass), and at the return all of the plan has been called.
C33_CleanupRunsEveryStepInOrder ==
    cl.pc \notin {"none", "idle"} =>
        /\ Len(cl.steps) <= Len(PlannedSteps(cl))
        /\ CalledSteps(cl) = SubSeq(PlannedSteps(cl), 1, Len(cl.steps))
        /\ cl.pc = "returned" => CalledSteps(cl) = PlannedSteps(cl)

\* a cleanup of two services, two databases and a folder that returned after
\* its first stop, its first delete, its first drop and the folder delete
\* all failed
C33_Witness ==
    /\ cl.pc = "returned"
    /\ cl.services = 2 /\ cl.databases = 2 /\ cl.folders = 1
    /\ Len(cl.steps) = 8
    /\ ~cl.steps[1].ok /\ ~cl.steps[2].ok /\ ~cl.steps[5].ok /\ ~cl.steps[7].ok

\* C34: when the registry script writes a stderr text without the benign
\* marker, the result of the cleanup holds a registry error, whatever the
\* return code of the script, and the cleanup does not end SUCCESS.
C34_RegistryStderrAlwaysRecorded ==
    (cl.pc = "returned" /\ cl.registry.kind = "ran" /\ cl.registry.stderr = "other") =>
        /\ \E k \in DOMAIN res.errors : res.errors[k] = Msg("Registry error", 0)
        /\ res.status # "SUCCESS"

\* what does hold: the stderr text is recorded in the result when the script
\* also returned nonzero; with return code 0 it is only logged
RegistryStderrRecordedOnFailure ==
    (cl.pc = "returned" /\ cl.registry.kind = "ran" /\ cl.registry.stderr = "other") =>
        ((\E k \in DOMAIN res.errors : res.errors[k] = Msg("Registry error", 0))
            <=> cl.registry.returncode # 0)

\* C38: a cleanup ends SUCCESS only when the registry pass succeeded (script
\* found and return code 0), also when the failed pass wrote no stderr text
\* other than a benign one.
C38_SuccessNeedsRegistrySuccess ==
    (cl.pc = "returned" /\ res.status = "SUCCESS") =>
        (cl.registry.kind = "ran" /\ cl.registry.returncode = 0)

\* what does hold: a cleanup ends SUCCESS only when the registry pass
\* succeeded or failed with an empty errors list
SuccessNeedsNoRegistryErrorText ==
    (cl.pc = "returned" /\ res.status = "SUCCESS") =>
        (cleanup_registry(cl.registry).success \/ cleanup_registry(cl.registry).errors = 0)

----------------------------------------------------------------------------
(* Claims about the flags of the result model, checked under SpecResult *)

\* C39: in every state of an OperationResult reached through create,
\* add_message, add_warning, add_error, add_resource and finalize, success is
\* true exactly when the status is SUCCESS, partial_success exactly when it
\* is PARTIAL_SUCCESS, and the two flags are never both true.
C39_FlagsFollowStatus ==
    res # NoResult =>
        /\ res.success <=> res.status = "SUCCESS"
        /\ res.partial_success <=> res.status = "PARTIAL_SUCCESS"
        /\ ~(res.success /\ res.partial_success)

\* what does hold: success is true only with status SUCCESS, partial_success
\* exactly with PARTIAL_SUCCESS, never both; after an add_error that follows
\* finalize(SUCCESS) the status is still SUCCESS with success false
FlagsImplyStatus ==
    res # NoResult =>
        /\ res.success => res.status = "SUCCESS"
        /\ res.partial_success <=> res.status = "PARTIAL_SUCCESS"
        /\ ~(res.success /\ res.partial_success)
        /\ (res.status = "SUCCESS" /\ ~res.success) => res.errors # <<>>

----------------------------------------------------------------------------
(* Claims about the host after the delivery of a result, checked under Spec *)

\* the op_finished signal of the worker the controller holds has been
\* handled by the main window
ResultDelivered ==
    \E k \in DOMAIN delivered :
        delivered[k].sig = "op_finished" /\ delivered[k].w = worker

\* C37: once the result of an invocation has been delivered (op_finished
\* handled, the window enabled again) the host is not busy, so that the next
\* execute_operation is accepted: the result is never delivered while the
\* worker still counts as running.
C37_DeliveredMeansNotBusy ==
    (variant = "ui" /\ worker # 0 /\ ResultDelivered) => ~IsBusy

\* what does hold: when the result is delivered the worker is past its emit,
\* with nothing left to do but return from run; isRunning() turns false only
\* then
DeliveredMeansPastEmit ==
    (variant = "ui" /\ worker # 0 /\ ResultDelivered) =>
        thr[worker].pc \in {"emitted", "done"}

----------------------------------------------------------------------------
(* SpecPipelines: one call of one of the three pipelines of BatchRunner,   *)
(* execute_backup, execute_restore or execute_cleanup, each as modelled    *)
(* above.                                                                  *)

InitPipelines == InitBackup \/ InitSql \/ InitCleanup

NextPipelines == NextBackup \/ NextSql \/ NextCleanup

SpecPipelines == InitPipelines /\ [][NextPipelines]_vars

\* one of the three pipelines has returned its result
PipelineReturned ==
    \/ bk.pc = "returned"
    \/ rs.pc = "returned" /\ rs.fn = "execute_restore"
    \/ cl.pc = "returned"

\* C36: every result returned by execute_backup, execute_restore or
\* execute_cleanup with status SUCCESS has an empty errors list.
C36_SuccessHasNoErrors ==
    (PipelineReturned /\ res.status = "SUCCESS") => res.errors = <<>>

\* a cleanup that returned SUCCESS although a service could not be stopped
\* and a folder could not be deleted
C36_Witness ==
    /\ cl.pc = "returned"
    /\ res.status = "SUCCESS"
    /\ res.errors = <<>>
    /\ Len(res.warnings) = 2
    /\ cl.services = 1 /\ cl.folders = 1

----------------------------------------------------------------------------
(* SpecMonitor: the ServiceMonitor of app/logic/service_monitor.py.  The   *)
(* controller's thread calls start_monitoring and stop_monitoring, one     *)
(* call at a time; each monitor thread runs monitor_services.  A thread is *)
(* at "check" (the while condition), "poll" (inside                        *)
(* get_all_service_statuses, one sc query of up to 10 s for each service), *)
(* "wait" (inside _stop_event.wait) or "exited".                           *)

MonitorIds == 1 .. MaxMonitors

\* __init__, lines 31-37.  caller is the position of the controller's
\* thread: "idle" or "joining", inside the join of stop_monitoring.  stops,
\* stopped, timed_out and late_emit are history fields: the stop_monitoring
\* calls made, whether the last call returned was a stop_monitoring, whether
\* a join gave up on a live thread, and whether service_status_changed was
\* emitted after a stop_monitoring returned with no start_monitoring since.
NewMonitor ==
    [pc |-> "ready", caller |-> "idle", running |-> FALSE, stop_event |-> FALSE,
     monitor_thread |-> 0, threads |-> [t \in MonitorIds |-> "none"],
     stops |-> 0, stopped |-> FALSE, timed_out |-> FALSE, late_emit |-> FALSE]

InitMonitor ==
    /\ mon = NewMonitor
    /\ variant = "none"
    /\ worker = 0
    /\ thr = [w \in WorkerIds |-> NoThread]
    /\ callback = 0
    /\ queue = <<>>
    /\ delivered = <<>>
    /\ ncalls = 0
    /\ nbusy = 0
    /\ ParkedResult
    /\ ParkedPipes

\* threading.Thread.is_alive()
is_alive(m, t) == m.threads[t] \in {"check", "poll", "wait"}

\* the threads inside monitor_services
LiveMonitors(m) == {t \in MonitorIds : is_alive(m, t)}

\* the id of the next Thread object
NextMonitor(m) == CHOOSE t \in MonitorIds : m.threads[t] = "none" /\ \A u \in 1 .. t - 1 : m.threads[u] # "none"

\* lines 94-103, start_monitoring: nothing when _running is set, else the
\* flag is set, the event cleared and a new thread started
start_monitoring(m) ==
    IF m.running THEN [m EXCEPT !.stopped = FALSE]
    ELSE [m EXCEPT !.running = TRUE,
                   !.stop_event = FALSE,
                   !.monitor_thread = NextMonitor(m),
                   !.threads[NextMonitor(m)] = "check",
                   !.stopped = FALSE]

StartMonitoring ==
    /\ mon.pc = "ready"
    /\ mon.caller = "idle"
    /\ mon.running \/ \E t \in MonitorIds : mon.threads[t] = "none"
    /\ mon' = start_monitoring(mon)
    /\ UNCHANGED <<variant, worker, thr, callback, queue, delivered, ncalls, nbusy,
                   resultVars, pipeVars>>

\* lines 105-110, stop_monitoring up to the join: the flag is cleared and the
\* event set; the join is entered when there is a thread and it is alive
StopMonitoring ==
    /\ mon.pc = "ready"
    /\ mon.caller = "idle"
    /\ mon.stops < MaxStops
    /\ mon' = [mon EXCEPT
                 !.running = FALSE,
                 !.stop_event = TRUE,
                 !.stops = @ + 1,
                 !.caller = IF mon.monitor_thread # 0 /\ is_alive(mon, mon.monitor_thread)
                            THEN "joining" ELSE "idle",
                 !.stopped = ~(mon.monitor_thread # 0 /\ is_alive(mon, mon.monitor_thread))]
    /\ UNCHANGED <<variant, worker, thr, callback, queue, delivered, ncalls, nbusy,
                   resultVars, pipeVars>>

\* line 112, join(timeout=2.0): it returns when the thread has exited, or
\* after 2 s with the thread alive; a thread at its while condition or woken
\* from its wait exits well within that time, one inside the sc queries of
\* get_all_service_statuses may not
join_returns(m) ==
    ~is_alive(m, m.monitor_thread) \/ m.threads[m.monitor_thread] = "poll"

\* lines 112-116: the join returns and stop_monitoring with it
StopJoined ==
    /\ mon.pc = "ready"
    /\ mon.caller = "joining"
    /\ join_returns(mon)
    /\ mon' = [mon EXCEPT
                 !.caller = "idle",
                 !.stopped = TRUE,
                 !.timed_out = @ \/ is_alive(mon, mon.monitor_thread)]
    /\ UNCHANGED <<variant, worker, thr, callback, queue, delivered, ncalls, nbusy,
                   resultVars, pipeVars>>

\* line 84: the while condition of monitor_services
MonCheck ==
    /\ mon.pc = "ready"
    /\ \E t \in MonitorIds :
         /\ mon.threads[t] = "check"
         /\ mon' = [mon EXCEPT !.threads[t] =
                       IF mon.running /\ ~mon.stop_event THEN "poll" ELSE "exited"]
    /\ UNCHANGED <<variant, worker, thr, callback, queue, delivered, ncalls, nbusy,
                   resultVars, pipeVars>>

\* lines 86-87: get_all_service_statuses returns and service_status_changed
\* is emitted
MonPoll ==
    /\ mon.pc = "ready"
    /\ \E t \in MonitorIds :
         /\ mon.threads[t] = "poll"
         /\ mon' = [mon EXCEPT !.threads[t] = "wait",
                               !.late_emit = @ \/ mon.stopped]
    /\ UNCHANGED <<variant, worker, thr, callback, queue, delivered, ncalls, nbusy,
                   resultVars, pipeVars>>

\* line 92: _stop_event.wait(update_interval) returns, the event set or the
\* interval over
MonWait ==
    /\ mon.pc = "ready"
    /\ \E t \in MonitorIds :
         /\ mon.threads[t] = "wait"
         /\ mon' = [mon EXCEPT !.threads[t] = "check"]
    /\ UNCHANGED <<variant, worker, thr, callback, queue, delivered, ncalls, nbusy,
                   resultVars, pipeVars>>

NextMonitorStep ==
    \/ StartMonitoring
    \/ StopMonitoring
    \/ StopJoined
    \/ MonCheck
    \/ MonPoll
    \/ MonWait

SpecMonitor == InitMonitor /\ [][NextMonitorStep]_vars

\* C40: after any sequence of start_monitoring and stop_monitoring calls, a
\* stop followed at once by a start included, at most one monitor thread is
\* inside the polling loop, and once stop_monitoring has returned with no
\* start_monitoring after it no service_status_changed is emitted.
C40_OneMonitorAndSilenceAfterStop ==
    (mon.pc = "ready" /\ mon.caller = "idle") =>
        /\ Cardinality(LiveMonitors(mon)) <= 1
        /\ ~mon.late_emit

\* what does hold: as long as no join has given up on a live thread, at most
\* one monitor thread is alive and nothing is emitted after a stop
OneMonitorWhileJoinsSucceed ==
    (mon.pc = "ready" /\ mon.caller = "idle" /\ ~mon.timed_out) =>
        /\ Cardinality(LiveMonitors(mon)) <= 1
        /\ ~mon.late_emit
        /\ mon.stopped => LiveMonitors(mon) = {}

====
